---- MODULE Spec2Model ----
(***************************************************************************)
(* Retrieval-and-learning engine of the voice customer-care assistant.     *)
(*                                                                         *)
(*   ElasticsearchClient  src/app/clients/elasticsearch_client.py          *)
(*   RAGService           src/app/services/rag_service.py                  *)
(*   LearningService      src/app/services/learning_service.py             *)
(*                                                                         *)
(* The document store (Elasticsearch) and the embedding providers are the  *)
(* environment: a request to either of them answers or fails, and a store  *)
(* request that answers behaves as the Elasticsearch API the client calls. *)
(*                                                                         *)
(* Scores are in tenths (7 stands for 0.7).  An embedding is abstracted to *)
(* its length `dims` and a direction `dir`; the cosine score of two        *)
(* embeddings depends on their directions only.                            *)
(***************************************************************************)
EXTENDS Integers, Sequences, FiniteSets, TLC

VARIABLES
    idxExists,  \* store: index name -> whether the index exists
    idxDims,    \* store: index name -> "dims" of its dense_vector mapping
    idxDocs,    \* store: index name -> [document id -> _source]
    settings,   \* app.config.settings, read by every component
    rag,        \* the RAGService instance (fields set by __init__)
    rc,         \* the retrieve_context call in progress
    ci,         \* the index-creation calls in progress, one per caller
    wr,         \* the last write or delete_index call and its outcome
    uuidNext,   \* number of uuid4 ids drawn so far
    lc,         \* the LearningService calls in progress, one per caller
    clock,      \* datetime.utcnow(), in ticks
    nCalls,     \* number of store_conversation calls made so far
    app_state,  \* app.state as lifespan has left it
    tg,         \* the Telegram webhook requests in progress, one per caller
    call_contexts,  \* routes/phone.py: the module's dict call_contexts
    ph,         \* the process-speech requests in progress
    ended,      \* CallSids whose cleanup has run, no incoming-call since
    ck          \* a call of DocumentChunker.chunk_text

vars == <<idxExists, idxDims, idxDocs, settings, rag, rc, ci, wr, uuidNext,
          lc, clock, nCalls, app_state, tg, call_contexts, ph, ended, ck>>
storeVars == <<idxExists, idxDims, idxDocs>>
learnVars == <<lc, clock, nCalls>>
channelVars == <<app_state, tg, call_contexts, ph, ended>>

(***************************************************************************)
(* Bounds                                                                  *)
(***************************************************************************)
MaxIds == 2     \* caller-chosen document ids p1..pMaxIds
MaxUuid == 2    \* uuid4 ids drawn in one behaviour
MaxK == 2       \* largest top_k a caller passes
MaxBatch == 2   \* largest bulk_index batch
MaxCalls == 2   \* store_conversation calls in one behaviour

(***************************************************************************)
(* Program constants                                                       *)
(***************************************************************************)
OpenAIDims == 1536              \* text-embedding-3-small
LocalDims == 384                \* all-MiniLM-L6-v2
LearningIndexDims == 1536       \* ensure_learning_index mapping
DefaultMaxContextChunks == 5    \* settings.max_context_chunks
DefaultMinSimilarityScore == 7  \* settings.min_similarity_score = 0.7
NumCandidatesFactor == 10       \* "num_candidates": top_k * 10
TextBoost == 2                  \* "text^2" in keyword_search
MaxScore == 10                  \* score 1.0

KbIndex == "customer_care_kb"
LearningIndex == "customer_care_kb_conversations"
IndexNames == {KbIndex, LearningIndex}
NoContextMessage == "No relevant context available."

(***************************************************************************)
(* Python values                                                           *)
(***************************************************************************)
\* Optional argument: None, or a supplied value.
None == [given |-> FALSE, val |-> 0]
Some(v) == [given |-> TRUE, val |-> v]

\* `x or default` on an Optional number: None and 0 are both falsy.
PyOr(x, default) == IF x.given /\ x.val # 0 THEN x.val ELSE default

\* dict.get(key, default)
Get(d, key, default) == IF key \in DOMAIN d THEN d[key] ELSE default

Min(a, b) == IF a <= b THEN a ELSE b
Take(s, n) == SubSeq(s, 1, Min(IF n < 0 THEN 0 ELSE n, Len(s)))

(***************************************************************************)
(* Texts and embeddings                                                    *)
(***************************************************************************)
DocTexts == {"opening hours", "refund policy"}
Queries == {"opening hours", "refund hours", "weather"}

Words(t) ==
    CASE t = "opening hours" -> {"opening", "hours"}
      [] t = "refund policy" -> {"refund", "policy"}
      [] t = "refund hours" -> {"refund", "hours"}
      [] t = "Q: opening hours\n\nA: refund policy"
            -> {"q", "opening", "hours", "a", "refund", "policy"}
      [] OTHER -> {t}

Dir(t) ==
    CASE t = "opening hours" -> 1
      [] t = "refund policy" -> 2
      [] t = "refund hours" -> 3
      [] OTHER -> 4

NoVector == [dims |-> 0, dir |-> 0]

\* What the active embedding provider answers for `text`.
ProviderDims(use_local) == IF use_local THEN LocalDims ELSE OpenAIDims
Embed(use_local, text) == [dims |-> ProviderDims(use_local), dir |-> Dir(text)]

\* Elasticsearch _score of a cosine dense_vector field, (1 + cos) / 2.
Abs(n) == IF n < 0 THEN 0 - n ELSE n
CosineScore(a, b) == MaxScore - 3 * Abs(a.dir - b.dir)

(***************************************************************************)
(* Documents                                                               *)
(***************************************************************************)
CallerIds == {"p" \o ToString(i) : i \in 1..MaxIds}
UuidIds == {"uuid-" \o ToString(i) : i \in 1..MaxUuid}
Dimensions == {LocalDims, OpenAIDims}

\* A knowledge-base passage as ingest_file builds it.
Passage(id, text, dims) ==
    [id |-> id, text |-> text,
     embedding |-> [dims |-> dims, dir |-> Dir(text)],
     metadata |-> [source |-> "faq.txt"]]

\* A document as DataIngestionCLI.ingest_documents builds it: 'content', no
\* 'text' and no 'id'.
ContentDoc(text, dims) ==
    [content |-> text,
     embedding |-> [dims |-> dims, dir |-> Dir(text)],
     metadata |-> [source |-> "cli"]]

\* A document without metadata.
BareDoc(text, dims) ==
    [text |-> text, embedding |-> [dims |-> dims, dir |-> Dir(text)]]

DocsFor(id, dims) ==
    {Passage(id, t, dims) : t \in DocTexts}
        \cup {ContentDoc("opening hours", dims), BareDoc("refund policy", dims)}

\* The store accepts a document into an index iff its dense_vector field is
\* absent or has the length of the mapping.
Accepts(dims, document) ==
    \/ "embedding" \notin DOMAIN document
    \/ document.embedding.dims = dims

IndexContents(ids, dims) ==
    UNION {{f \in [S -> UNION {DocsFor(id, dims) : id \in S}] :
                \A id \in S : f[id] \in DocsFor(id, dims)} : S \in SUBSET ids}

(***************************************************************************)
(* Settings and RAGService.__init__                                        *)
(***************************************************************************)
\* A floor below the default, as MIN_SIMILARITY_SCORE=0.4 would set it.
LowSimilarityScore == DefaultMinSimilarityScore - 3

\* The settings of one deployment.  embedding_dimension is set on its own,
\* independently of use_local_models.
SettingsChoices ==
    [use_local_models : BOOLEAN,
     embedding_dimension : Dimensions,
     max_context_chunks : {DefaultMaxContextChunks},
     min_similarity_score : {DefaultMinSimilarityScore, LowSimilarityScore}]

DefaultSettings ==
    [use_local_models |-> FALSE,
     embedding_dimension |-> OpenAIDims,
     max_context_chunks |-> DefaultMaxContextChunks,
     min_similarity_score |-> DefaultMinSimilarityScore]

\* RAGService.__init__: `loaded` tells whether LocalEmbeddingService could
\* be imported and its model loaded.  (With use_local_models false and no
\* API key the constructor raises and there is no instance.)
RAGService(cfg, loaded) ==
    IF cfg.use_local_models
    THEN IF loaded
         THEN [max_chunks |-> cfg.max_context_chunks, use_local |-> TRUE,
               embedding_model |-> "local", use_keyword_search |-> FALSE]
         ELSE [max_chunks |-> cfg.max_context_chunks, use_local |-> TRUE,
               embedding_model |-> "none", use_keyword_search |-> TRUE]
    ELSE [max_chunks |-> cfg.max_context_chunks, use_local |-> FALSE,
          embedding_model |-> "text-embedding-3-small",
          use_keyword_search |-> FALSE]

(***************************************************************************)
(* The store's search requests                                             *)
(***************************************************************************)
\* The ids of `cands` in non-increasing order of score.
RECURSIVE RankHits(_, _)
RankHits(cands, score) ==
    IF cands = {} THEN <<>>
    ELSE LET best == CHOOSE d \in cands : \A e \in cands : score[d] >= score[e]
         IN  <<best>> \o RankHits(cands \ {best}, score)

ScoreAtLeast(hits, min_score) == SelectSeq(hits, LAMBDA h : h._score >= min_score)

Hit(index, id, score) == [_id |-> id, _score |-> score, _source |-> idxDocs[index][id]]

\* client.search(index, body = {"knn": {field, query_vector, k,
\* num_candidates}, "min_score": min_score}, size = size)
KnnSearch(index, field, query_vector, k, num_candidates, min_score, size) ==
    IF \/ ~idxExists[index]
       \/ k < 1 \/ num_candidates < k \/ size < 0
       \/ query_vector.dims # idxDims[index]
    THEN [ok |-> FALSE, hits |-> <<>>]
    ELSE LET docs == idxDocs[index]
             cands == {id \in DOMAIN docs : field \in DOMAIN docs[id]}
             score == [id \in cands |-> CosineScore(query_vector, docs[id][field])]
             ranked == RankHits(cands, score)
             nearest == Take(ranked, k)
             hits == [i \in 1..Len(nearest) |-> Hit(index, nearest[i], score[nearest[i]])]
         IN  [ok |-> TRUE, hits |-> Take(ScoreAtLeast(hits, min_score), size)]

\* Score of one full-text field against the query: shared words, boosted.
FieldScore(source, field, boost, query_text) ==
    IF field \in DOMAIN source
    THEN boost * Cardinality(Words(source[field]) \cap Words(query_text))
    ELSE 0

Max3(a, b, c) ==
    IF a >= b /\ a >= c THEN a ELSE IF b >= c THEN b ELSE c

\* client.search(index, body = {"query": {"multi_match": {fields:
\* ["text^2", "question", "answer"], type: best_fields}}}, size = size)
MultiMatchSearch(index, query_text, size) ==
    IF ~idxExists[index] \/ size < 0
    THEN [ok |-> FALSE, hits |-> <<>>]
    ELSE LET docs == idxDocs[index]
             score == [id \in DOMAIN docs |->
                          Max3(FieldScore(docs[id], "text", TextBoost, query_text),
                               FieldScore(docs[id], "question", 1, query_text),
                               FieldScore(docs[id], "answer", 1, query_text))]
             cands == {id \in DOMAIN docs : score[id] > 0}
             ranked == RankHits(cands, [id \in cands |-> score[id]])
             hits == [i \in 1..Len(ranked) |-> Hit(index, ranked[i], score[ranked[i]])]
         IN  [ok |-> TRUE, hits |-> Take(hits, size)]

(***************************************************************************)
(* ElasticsearchClient.vector_search and keyword_search                    *)
(***************************************************************************)
\* Variant: asks the store for one hit more than top_k.
vector_search_OneTooMany(query_vector, top_k, min_score, fault) ==
    LET eff_min_score == PyOr(min_score, settings.min_similarity_score)
        response == KnnSearch(KbIndex, "embedding", query_vector, top_k + 1,
                              (top_k + 1) * NumCandidatesFactor, eff_min_score,
                              top_k + 1)
        hits == response.hits
    IN  IF fault \/ ~response.ok
           \/ \E i \in 1..Len(hits) : "text" \notin DOMAIN hits[i]._source
        THEN [raised |-> "ElasticsearchError", results |-> <<>>]
        ELSE [raised |-> "",
              results |-> [i \in 1..Len(hits) |->
                              [id |-> hits[i]._id,
                               score |-> hits[i]._score,
                               text |-> hits[i]._source.text,
                               metadata |-> Get(hits[i]._source, "metadata", <<>>)]]]

\* Variant: always filters by the configured floor, whatever was passed.
vector_search_IgnoresMinScore(query_vector, top_k, min_score, fault) ==
    LET response == KnnSearch(KbIndex, "embedding", query_vector, top_k,
                              top_k * NumCandidatesFactor,
                              settings.min_similarity_score, top_k)
        hits == response.hits
    IN  IF fault \/ ~response.ok
           \/ \E i \in 1..Len(hits) : "text" \notin DOMAIN hits[i]._source
        THEN [raised |-> "ElasticsearchError", results |-> <<>>]
        ELSE [raised |-> "",
              results |-> [i \in 1..Len(hits) |->
                              [id |-> hits[i]._id,
                               score |-> hits[i]._score,
                               text |-> hits[i]._source.text,
                               metadata |-> Get(hits[i]._source, "metadata", <<>>)]]]

\* `fault`: the store request fails (unreachable, timeout).
vector_search(query_vector, top_k, min_score, fault) ==
    LET eff_min_score == PyOr(min_score, settings.min_similarity_score)
        response == KnnSearch(KbIndex, "embedding", query_vector, top_k,
                              top_k * NumCandidatesFactor, eff_min_score, top_k)
        hits == response.hits
    IN  IF fault \/ ~response.ok
           \/ \E i \in 1..Len(hits) : "text" \notin DOMAIN hits[i]._source
        THEN [raised |-> "ElasticsearchError", results |-> <<>>]
        ELSE [raised |-> "",
              results |-> [i \in 1..Len(hits) |->
                              [id |-> hits[i]._id,
                               score |-> hits[i]._score,
                               text |-> hits[i]._source.text,
                               metadata |-> Get(hits[i]._source, "metadata", <<>>)]]]

\* `x or y` on strings: the empty string is falsy.
TextOrAnswer(source) ==
    IF Get(source, "text", "") # "" THEN source.text ELSE Get(source, "answer", "")

keyword_search(query_text, top_k, fault) ==
    LET response == MultiMatchSearch(KbIndex, query_text, top_k)
        hits == response.hits
    IN  IF fault \/ ~response.ok
        THEN [raised |-> "ElasticsearchError", results |-> <<>>]
        ELSE [raised |-> "",
              results |-> [i \in 1..Len(hits) |->
                              [id |-> hits[i]._id,
                               score |-> hits[i]._score,
                               text |-> TextOrAnswer(hits[i]._source),
                               metadata |-> Get(hits[i]._source, "metadata", <<>>)]]]

(***************************************************************************)
(* RAGService.retrieve_context                                             *)
(***************************************************************************)
RECURSIVE JoinParts(_, _)
JoinParts(parts, sep) ==
    IF Len(parts) = 0 THEN ""
    ELSE IF Len(parts) = 1 THEN parts[1]
    ELSE parts[1] \o sep \o JoinParts(Tail(parts), sep)

\* Variant: no special case for an empty list.
format_context_NoEmptyCase(documents) ==
    JoinParts([i \in 1..Len(documents) |->
                  "[" \o ToString(i) \o "] " \o documents[i].text
                      \o " (Source: "
                      \o Get(documents[i].metadata, "source", "unknown")
                      \o ")"],
              "\n\n")

format_context(documents) ==
    IF Len(documents) = 0
    THEN NoContextMessage
    ELSE JoinParts([i \in 1..Len(documents) |->
                        "[" \o ToString(i) \o "] " \o documents[i].text
                            \o " (Source: "
                            \o Get(documents[i].metadata, "source", "unknown")
                            \o ")"],
                   "\n\n")

\* RetrievedDocument(id, text, score, metadata) for each result, in order.
ToDocuments(results) ==
    [i \in 1..Len(results) |->
        [id |-> results[i].id, text |-> results[i].text,
         score |-> results[i].score, metadata |-> results[i].metadata]]

RcIdle ==
    [pc |-> "idle", query |-> "", top_k_arg |-> None, top_k |-> 0,
     min_score |-> None,
     query_embedding |-> NoVector,
     embedReqs |-> 0, kwReqs |-> 0, vecReqs |-> 0,
     embedFailed |-> FALSE, searchFailed |-> FALSE,
     results |-> <<>>, documents |-> <<>>, formatted_context |-> "",
     outcome |-> "", raisedToCaller |-> 0]

TopKArgs == {None} \cup {Some(k) : k \in 0..MaxK}
MinScoreArgs == {None, Some(0), Some(5), Some(8)}

\* Entry: top_k = top_k or self.max_chunks, then the branch on the strategy.
retrieve_context(query, top_k, min_score) ==
    /\ rc.pc = "idle"
    /\ rc' = [RcIdle EXCEPT
                !.pc = IF rag.use_keyword_search THEN "keyword_search"
                       ELSE "generate_embedding",
                !.query = query,
                !.top_k_arg = top_k,
                !.top_k = PyOr(top_k, rag.max_chunks),
                !.min_score = min_score]
    /\ UNCHANGED <<storeVars, settings, rag, ci, wr, uuidNext, learnVars, channelVars, ck>>

\* The except clause of retrieve_context: one RAGError to the caller.
RaiseRAGError(call) ==
    [call EXCEPT !.pc = "done", !.outcome = "RAGError",
                 !.raisedToCaller = @ + 1]

\* Variant: a failed embedding makes this request use keyword search.
generate_embedding_FallsBack(ok) ==
    /\ rc.pc = "generate_embedding"
    /\ LET sent == [rc EXCEPT !.embedReqs = @ + 1]
       IN  rc' = IF ok
                 THEN [sent EXCEPT !.pc = "vector_search",
                           !.query_embedding = Embed(rag.use_local, rc.query)]
                 ELSE [sent EXCEPT !.pc = "keyword_search", !.embedFailed = TRUE]
    /\ UNCHANGED <<storeVars, settings, rag, ci, wr, uuidNext, learnVars, channelVars, ck>>

\* query_embedding = await self.generate_embedding(query)
generate_embedding(ok) ==
    /\ rc.pc = "generate_embedding"
    /\ LET sent == [rc EXCEPT !.embedReqs = @ + 1]
       IN  rc' = IF ok
                 THEN [sent EXCEPT !.pc = "vector_search",
                           !.query_embedding = Embed(rag.use_local, rc.query)]
                 ELSE RaiseRAGError([sent EXCEPT !.embedFailed = TRUE])
    /\ UNCHANGED <<storeVars, settings, rag, ci, wr, uuidNext, learnVars, channelVars, ck>>

\* The rest of the try block once the search has answered.
Complete(call, results) ==
    [call EXCEPT !.pc = "done", !.outcome = "ok",
                 !.results = results,
                 !.documents = ToDocuments(results),
                 !.formatted_context = format_context(ToDocuments(results))]

\* Variant: a failed search is sent once more before giving up.
retrieve_vector_search_Retry(fault) ==
    /\ rc.pc = "vector_search"
    /\ LET sent == [rc EXCEPT !.vecReqs = @ + 1]
           answer == vector_search(rc.query_embedding, rc.top_k, rc.min_score, fault)
       IN  rc' = IF answer.raised = ""
                 THEN Complete(sent, answer.results)
                 ELSE IF rc.vecReqs = 0
                 THEN sent
                 ELSE RaiseRAGError([sent EXCEPT !.searchFailed = TRUE])
    /\ UNCHANGED <<storeVars, settings, rag, ci, wr, uuidNext, learnVars, channelVars, ck>>

retrieve_vector_search(fault) ==
    /\ rc.pc = "vector_search"
    /\ LET sent == [rc EXCEPT !.vecReqs = @ + 1]
           answer == vector_search(rc.query_embedding, rc.top_k, rc.min_score, fault)
       IN  rc' = IF answer.raised = ""
                 THEN Complete(sent, answer.results)
                 ELSE RaiseRAGError([sent EXCEPT !.searchFailed = TRUE])
    /\ UNCHANGED <<storeVars, settings, rag, ci, wr, uuidNext, learnVars, channelVars, ck>>

retrieve_keyword_search(fault) ==
    /\ rc.pc = "keyword_search"
    /\ LET sent == [rc EXCEPT !.kwReqs = @ + 1]
           answer == keyword_search(rc.query, rc.top_k, fault)
       IN  rc' = IF answer.raised = ""
                 THEN Complete(sent, answer.results)
                 ELSE RaiseRAGError([sent EXCEPT !.searchFailed = TRUE])
    /\ UNCHANGED <<storeVars, settings, rag, ci, wr, uuidNext, learnVars, channelVars, ck>>

\* The caller has the RAGContext or the RAGError; the next call may start.
retrieve_return ==
    /\ rc.pc = "done"
    /\ rc' = RcIdle
    /\ UNCHANGED <<storeVars, settings, rag, ci, wr, uuidNext, learnVars, channelVars, ck>>

CiIdle ==
    [pc |-> "idle", op |-> "", index |-> "", dims |-> 0, sawExists |-> FALSE,
     fault |-> FALSE, created |-> FALSE, result |-> ""]
Creators == {"a", "b"}

WrIdle ==
    [op |-> "", doc_id |-> "", usedId |-> "", existed |-> FALSE,
     document |-> <<>>, n |-> 0, rejected |-> 0, result |-> "", success |-> 0, failed |-> <<>>]

\* A LearningService call: its arguments, what it has computed so far and,
\* at "done", what the caller gets.
LcIdle ==
    [pc |-> "idle", op |-> "", question |-> "", answer |-> "",
     user_id |-> None, question_embedding |-> NoVector,
     answer_embedding |-> NoVector, embedReqs |-> 0, writes |-> 0,
     doc_id |-> "", existed |-> FALSE, conversation_id |-> "",
     kb_doc |-> <<>>, result |-> "", response |-> <<>>,
     total |-> 0, seen |-> <<>>,
     top_k |-> 0, min_score |-> 0, caught |-> FALSE]
Callers == {"a", "b"}

\* app.state before lifespan has run.
AppIdle == [es_client |-> FALSE, learning_service |-> FALSE]

\* A Telegram webhook request: where it is, whether the voice answer has
\* gone out, how the learning step ended, and the response.
TgIdle ==
    [pc |-> "idle", voice_sent |-> FALSE, learning |-> "", response |-> <<>>]

\* A process-speech request: its CallSid and its local `context`.
Requests == {"r1", "r2"}
PhIdle == [pc |-> "idle", CallSid |-> "", context |-> <<>>]

\* A chunk_text call: the chunker's settings, the number of words of the
\* text, the loop variables and the chunks so far.
CkIdle ==
    [pc |-> "idle", chunk_size |-> 0, overlap |-> 0, words |-> 0,
     start |-> 0, chunk_id |-> 0, chunks |-> <<>>]

\* Knowledge-base index of a running deployment: absent, or created with
\* some dimension and holding passages of that dimension.
InitRetrieve ==
    /\ settings \in SettingsChoices
    /\ \E loaded \in BOOLEAN : rag = RAGService(settings, loaded)
    /\ idxExists \in [IndexNames -> BOOLEAN]
    /\ idxExists[LearningIndex] = FALSE
    /\ idxDims \in [IndexNames -> Dimensions]
    /\ idxDims[LearningIndex] = LearningIndexDims
    /\ ~idxExists[KbIndex] => idxDims[KbIndex] = OpenAIDims
    /\ \E docs \in IndexContents(CallerIds, idxDims[KbIndex]) :
          /\ ~idxExists[KbIndex] => docs = <<>>
          /\ idxDocs = [n \in IndexNames |-> IF n = KbIndex THEN docs ELSE <<>>]
    /\ rc = RcIdle
    /\ ci = [c \in Creators |-> CiIdle]
    /\ wr = WrIdle
    /\ uuidNext = 0
    /\ lc = [c \in Callers |-> LcIdle]
    /\ clock = 0
    /\ nCalls = 0
    /\ app_state = AppIdle
    /\ tg = [c \in Callers |-> TgIdle]
    /\ call_contexts = <<>>
    /\ ph = [r \in Requests |-> PhIdle]
    /\ ended = {}
    /\ ck = CkIdle

NextRetrieve ==
    \/ \E q \in Queries, k \in TopKArgs, ms \in MinScoreArgs : retrieve_context(q, k, ms)
    \/ \E ok \in BOOLEAN : generate_embedding(ok)
    \/ \E fault \in BOOLEAN : retrieve_vector_search(fault)
    \/ \E fault \in BOOLEAN : retrieve_keyword_search(fault)
    \/ retrieve_return

SpecRetrieve == InitRetrieve /\ [][NextRetrieve]_vars

(***************************************************************************)
(* Properties of retrieval (checked under SpecRetrieve)                    *)
(***************************************************************************)
SearchAnswered == rc.pc = "done" /\ rc.kwReqs + rc.vecReqs = 1 /\ ~rc.searchFailed
VectorAnswered == rc.pc = "done" /\ rc.vecReqs = 1 /\ rc.outcome = "ok"

\* C1: when the search answers with zero hits, retrieve_context returns
\* normally: no error is raised, documents is empty and formatted_context is
\* the fixed no-context message.
C1_ZeroHitsIsNotAnError ==
    (SearchAnswered /\ rc.results = <<>>)
        => /\ rc.outcome = "ok"
           /\ rc.raisedToCaller = 0
           /\ rc.documents = <<>>
           /\ rc.formatted_context = NoContextMessage

\* The index exists, holds no document, and a vector search on it answered.
C1_Witness ==
    /\ SearchAnswered /\ rc.vecReqs = 1 /\ rc.results = <<>>
    /\ idxExists[KbIndex] /\ idxDocs[KbIndex] = <<>>
    /\ rc.formatted_context = NoContextMessage

\* C2: the search strategy is the one set by the constructor: no step
\* changes the instance, keyword_search is requested only by an instance
\* constructed with use_keyword_search, embedding and vector search only by
\* one constructed without it, a call that returns has used exactly its own
\* strategy, and a failed embedding ends the call without a keyword search.
C2_StrategyFixedAtConstruction ==
    [][/\ rag' = rag
       /\ rc'.kwReqs > rc.kwReqs => rag.use_keyword_search
       /\ (rc'.vecReqs > rc.vecReqs \/ rc'.embedReqs > rc.embedReqs)
              => ~rag.use_keyword_search
       /\ (rc.pc = "done" /\ rc.outcome = "ok")
              => /\ (rc.kwReqs = 1) = rag.use_keyword_search
                 /\ (rc.vecReqs = 1) = ~rag.use_keyword_search
       /\ (rc'.embedFailed /\ ~rc.embedFailed)
              => rc'.pc = "done" /\ rc'.kwReqs = 0 /\ rc'.outcome = "RAGError"]_vars

\* An embedding request failed in an instance built for vector search.
C2_Witness ==
    /\ ~rag.use_keyword_search
    /\ rc.pc = "done" /\ rc.embedFailed /\ rc.kwReqs = 0

\* C3: a failed embedding or search ends the call with exactly one RAGError
\* raised to the caller, and one call sends at most one embedding request
\* and at most one search request.
C3_OneErrorNoRetry ==
    /\ rc.embedReqs <= 1
    /\ rc.kwReqs + rc.vecReqs <= 1
    /\ (rc.embedFailed \/ rc.searchFailed)
          => rc.pc = "done" /\ rc.outcome = "RAGError" /\ rc.raisedToCaller = 1
    /\ rc.raisedToCaller <= 1

\* The search request of a call failed after its embedding request answered.
C3_Witness ==
    /\ rc.pc = "done" /\ rc.searchFailed
    /\ rc.embedReqs = 1 /\ rc.vecReqs = 1
    /\ rc.raisedToCaller = 1

\* C4: vector_search returns at most top_k hits in non-increasing order of
\* score, and retrieve_context hands them on as documents, same length and
\* same order.
C4_AtMostTopKSortedPassedOn ==
    VectorAnswered
        => /\ Len(rc.results) <= rc.top_k
           /\ \A i, j \in 1..Len(rc.results) :
                 i < j => rc.results[i].score >= rc.results[j].score
           /\ Len(rc.documents) = Len(rc.results)
           /\ \A i \in 1..Len(rc.results) :
                 /\ rc.documents[i].id = rc.results[i].id
                 /\ rc.documents[i].score = rc.results[i].score
                 /\ rc.documents[i].text = rc.results[i].text

\* Two hits of different score came back and were handed on in that order.
C4_Witness ==
    /\ VectorAnswered
    /\ Len(rc.results) = 2
    /\ rc.results[1].score > rc.results[2].score
    /\ rc.documents[2].id = rc.results[2].id

\* C5: when a min_score is passed, no returned hit scores below it.
C5_NoHitBelowMinScore ==
    (VectorAnswered /\ rc.min_score.given)
        => \A i \in 1..Len(rc.results) : rc.results[i].score >= rc.min_score.val

\* A passed min_score left fewer hits than top_k although the index holds
\* another searchable passage.
C5_Witness ==
    /\ VectorAnswered /\ rc.min_score.given /\ rc.min_score.val = 8
    /\ Len(rc.results) = 1 /\ rc.top_k >= 2
    /\ \A id \in DOMAIN idxDocs[KbIndex] : "text" \in DOMAIN idxDocs[KbIndex][id]
    /\ Cardinality(DOMAIN idxDocs[KbIndex]) = 2

(***************************************************************************)
(* Index creation: ElasticsearchClient.create_index, delete_index and      *)
(* LearningService.ensure_learning_index                                   *)
(***************************************************************************)
\* A call is two store requests, indices.exists then indices.create, with
\* other callers' requests in between.  `fault`: the request fails.

Enter(c, op, index, dims) ==
    [CiIdle EXCEPT !.op = op, !.index = index, !.dims = dims]

\* indices.exists answered or failed; `onError` is what the except clause
\* gives the caller.
AfterExists(call, fault, onError) ==
    IF fault
    THEN [call EXCEPT !.pc = "done", !.fault = TRUE, !.result = onError]
    ELSE IF idxExists[call.index]
    THEN [call EXCEPT !.pc = "done", !.sawExists = TRUE, !.result = "True"]
    ELSE [call EXCEPT !.pc = "create"]

\* indices.create is refused when the index exists by now
\* (resource_already_exists_exception).
CreateRefused(call, fault) == fault \/ idxExists[call.index]

AfterCreate(call, fault, onError) ==
    IF CreateRefused(call, fault)
    THEN [call EXCEPT !.pc = "done", !.fault = fault, !.result = onError]
    ELSE [call EXCEPT !.pc = "done", !.created = TRUE, !.result = "True"]

StoreCreate(call, fault) ==
    IF CreateRefused(call, fault)
    THEN UNCHANGED storeVars
    ELSE /\ idxExists' = [idxExists EXCEPT ![call.index] = TRUE]
         /\ idxDims' = [idxDims EXCEPT ![call.index] = call.dims]
         /\ idxDocs' = [idxDocs EXCEPT ![call.index] = <<>>]

\* Variant: no existence check, the index is always created.
create_index_check_AlwaysCreates(c, fault) ==
    /\ ci[c].pc = "idle"
    /\ ci' = [ci EXCEPT ![c] =
                [Enter(c, "create_index", KbIndex, settings.embedding_dimension)
                    EXCEPT !.pc = "create"]]
    /\ UNCHANGED <<storeVars, settings, rag, rc, wr, uuidNext, learnVars, channelVars, ck>>

\* create_index up to `await self.client.indices.exists(index=index_name)`.
create_index_check(c, fault) ==
    /\ ci[c].pc = "idle"
    /\ ci' = [ci EXCEPT ![c] =
                AfterExists(Enter(c, "create_index", KbIndex,
                                  settings.embedding_dimension),
                            fault, "ElasticsearchError")]
    /\ UNCHANGED <<storeVars, settings, rag, rc, wr, uuidNext, learnVars, channelVars, ck>>

\* `await self.client.indices.create(index=index_name, body=mapping)`
create_index_create(c, fault) ==
    /\ ci[c].pc = "create" /\ ci[c].op = "create_index"
    /\ ci' = [ci EXCEPT ![c] = AfterCreate(ci[c], fault, "ElasticsearchError")]
    /\ StoreCreate(ci[c], fault)
    /\ UNCHANGED <<settings, rag, rc, wr, uuidNext, learnVars, channelVars, ck>>

\* ensure_learning_index: same two requests, dims fixed in the mapping, any
\* exception turned into False.
ensure_learning_index_check(c, fault) ==
    /\ ci[c].pc = "idle"
    /\ ci' = [ci EXCEPT ![c] =
                AfterExists(Enter(c, "ensure_learning_index", LearningIndex,
                                  LearningIndexDims),
                            fault, "False")]
    /\ UNCHANGED <<storeVars, settings, rag, rc, wr, uuidNext, learnVars, channelVars, ck>>

ensure_learning_index_create(c, fault) ==
    /\ ci[c].pc = "create" /\ ci[c].op = "ensure_learning_index"
    /\ ci' = [ci EXCEPT ![c] = AfterCreate(ci[c], fault, "False")]
    /\ StoreCreate(ci[c], fault)
    /\ UNCHANGED <<settings, rag, rc, wr, uuidNext, learnVars, channelVars, ck>>

creation_return(c) ==
    /\ ci[c].pc = "done"
    /\ ci' = [ci EXCEPT ![c] = CiIdle]
    /\ UNCHANGED <<storeVars, settings, rag, rc, wr, uuidNext, learnVars, channelVars, ck>>

\* delete_index: one indices.delete request; failure gives False.
delete_index(fault) ==
    /\ IF fault \/ ~idxExists[KbIndex]
       THEN UNCHANGED storeVars
       ELSE /\ idxExists' = [idxExists EXCEPT ![KbIndex] = FALSE]
            /\ idxDocs' = [idxDocs EXCEPT ![KbIndex] = <<>>]
            /\ UNCHANGED idxDims
    /\ wr' = [WrIdle EXCEPT
                !.op = "delete_index",
                !.result = IF fault \/ ~idxExists[KbIndex] THEN "False" ELSE "True"]
    /\ UNCHANGED <<settings, rag, rc, ci, uuidNext, learnVars, channelVars, ck>>

\* A store in which either index is absent or was created earlier, possibly
\* by a deployment with another embedding_dimension.
InitIndex ==
    /\ settings \in SettingsChoices
    /\ settings.min_similarity_score = DefaultMinSimilarityScore
    /\ rag = RAGService(settings, TRUE)
    /\ idxExists \in [IndexNames -> BOOLEAN]
    /\ idxDims \in [IndexNames -> Dimensions]
    /\ idxDims[LearningIndex] = LearningIndexDims
    /\ ~idxExists[KbIndex] => idxDims[KbIndex] = OpenAIDims
    /\ \E docs \in IndexContents(CallerIds, idxDims[KbIndex]) :
          /\ ~idxExists[KbIndex] => docs = <<>>
          /\ idxDocs = [n \in IndexNames |-> IF n = KbIndex THEN docs ELSE <<>>]
    /\ rc = RcIdle
    /\ ci = [c \in Creators |-> CiIdle]
    /\ wr = WrIdle
    /\ uuidNext = 0
    /\ lc = [c \in Callers |-> LcIdle]
    /\ clock = 0
    /\ nCalls = 0
    /\ app_state = AppIdle
    /\ tg = [c \in Callers |-> TgIdle]
    /\ call_contexts = <<>>
    /\ ph = [r \in Requests |-> PhIdle]
    /\ ended = {}
    /\ ck = CkIdle

NextIndex ==
    \/ \E c \in Creators, fault \in BOOLEAN : create_index_check(c, fault)
    \/ \E c \in Creators, fault \in BOOLEAN : create_index_create(c, fault)
    \/ \E c \in Creators, fault \in BOOLEAN : ensure_learning_index_check(c, fault)
    \/ \E c \in Creators, fault \in BOOLEAN : ensure_learning_index_create(c, fault)
    \/ \E c \in Creators : creation_return(c)
    \/ \E fault \in BOOLEAN : delete_index(fault)

SpecIndex == InitIndex /\ [][NextIndex]_vars

(***************************************************************************)
(* Properties of index creation (checked under SpecIndex)                  *)
(***************************************************************************)
\* C6: create_index on an index that exists creates nothing and leaves the
\* index's dimension and documents as they are, also when the configured
\* dimension differs; it returns True whenever the store answers.
C6_CreateIndexIdempotent ==
    [][\A c \in Creators :
          (/\ ci[c].pc = "idle"
           /\ ci'[c].pc # "idle" /\ ci'[c].op = "create_index"
           /\ idxExists[KbIndex])
              => /\ ci'[c].pc = "done"
                 /\ ~ci'[c].created
                 /\ ~ci'[c].fault => ci'[c].result = "True"
                 /\ storeVars' = storeVars]_vars

\* create_index returned True on an index of another dimension that holds
\* documents.
C6_Witness ==
    \E c \in Creators :
        /\ ci[c].pc = "done" /\ ci[c].op = "create_index"
        /\ ci[c].sawExists /\ ci[c].result = "True"
        /\ idxExists[KbIndex]
        /\ idxDims[KbIndex] # settings.embedding_dimension
        /\ idxDocs[KbIndex] # <<>>

\* C7: two callers that both saw the index absent and then both asked the
\* store to create it both report success.
C7_ConcurrentCreationBothSucceed ==
    \A c1, c2 \in Creators :
        (/\ c1 # c2
         /\ ci[c1].pc = "done" /\ ci[c2].pc = "done"
         /\ ci[c1].index = ci[c2].index
         /\ ~ci[c1].sawExists /\ ~ci[c2].sawExists
         /\ ~ci[c1].fault /\ ~ci[c2].fault)
            => ci[c1].result = "True" /\ ci[c2].result = "True"

\* C8: every document's embedding has the length of its index's mapping,
\* and an index is only ever created with the dimension of the active
\* embedding provider (a mismatch is rejected at creation).
C8_DimensionMatchesProvider ==
    /\ \A n \in IndexNames : \A id \in DOMAIN idxDocs[n] :
          /\ "embedding" \in DOMAIN idxDocs[n][id]
          /\ idxDocs[n][id].embedding.dims = idxDims[n]
    /\ \A c \in Creators :
          ci[c].created => ci[c].dims = ProviderDims(settings.use_local_models)

(***************************************************************************)
(* Document writes: ElasticsearchClient.index_document and bulk_index      *)
(***************************************************************************)
\* dict[key] = value
Put(f, key, value) ==
    [x \in DOMAIN f \cup {key} |-> IF x = key THEN value ELSE f[x]]

\* str(uuid.uuid4()): the n-th id drawn; no two draws give the same id.
Uuid4(n) == "uuid-" \o ToString(n)

\* Variant: the passed id is ignored and an id is always generated.
DocIdFor_AlwaysGenerated(doc_id, n) == Uuid4(n)

\* `if not doc_id: doc_id = str(uuid.uuid4())`; None and "" are both "".
DocIdFor(doc_id, n) == IF doc_id = "" THEN Uuid4(n) ELSE doc_id

\* Mapping of an index the store creates itself on a first write to it.
DynamicDims(dims, document) ==
    IF "embedding" \in DOMAIN document THEN document.embedding.dims ELSE dims

\* One document of a client.index or bulk request.  `auto`: the store
\* creates a missing index on write (action.auto_create_index).
StoreAccepts(exists, dims, document, auto) ==
    IF exists THEN Accepts(dims, document) ELSE auto

DocIdArgs == {""} \cup CallerIds \cup {Uuid4(i) : i \in 1..uuidNext}
WriteDocs ==
    UNION {{ContentDoc("opening hours", d), BareDoc("refund policy", d)} :
              d \in Dimensions}

index_document(doc_id, document, fault, auto) ==
    LET id == DocIdFor(doc_id, uuidNext + 1)
        ok == ~fault /\ StoreAccepts(idxExists[KbIndex], idxDims[KbIndex],
                                     document, auto)
    IN  /\ doc_id = "" => uuidNext < MaxUuid
        /\ uuidNext' = IF doc_id = "" THEN uuidNext + 1 ELSE uuidNext
        /\ IF ok
           THEN /\ idxExists' = [idxExists EXCEPT ![KbIndex] = TRUE]
                /\ idxDims' = [idxDims EXCEPT ![KbIndex] =
                                  IF idxExists[KbIndex] THEN @
                                  ELSE DynamicDims(@, document)]
                /\ idxDocs' = [idxDocs EXCEPT ![KbIndex] = Put(@, id, document)]
           ELSE UNCHANGED storeVars
        /\ wr' = [WrIdle EXCEPT
                    !.op = "index_document", !.doc_id = doc_id, !.usedId = id,
                    !.existed = id \in DOMAIN idxDocs[KbIndex],
                    !.document = document, !.n = 1,
                    !.result = IF ok THEN "True" ELSE "ElasticsearchError"]
        /\ UNCHANGED <<settings, rag, rc, ci, learnVars, channelVars, ck>>

InitWrite ==
    /\ settings \in SettingsChoices
    /\ settings.min_similarity_score = DefaultMinSimilarityScore
    /\ settings.embedding_dimension = ProviderDims(settings.use_local_models)
    /\ rag = RAGService(settings, TRUE)
    /\ idxExists \in [IndexNames -> BOOLEAN]
    /\ idxExists[LearningIndex] = FALSE
    /\ idxDims \in [IndexNames -> Dimensions]
    /\ idxDims[LearningIndex] = LearningIndexDims
    /\ idxExists[KbIndex] => idxDims[KbIndex] = settings.embedding_dimension
    /\ ~idxExists[KbIndex] => idxDims[KbIndex] = OpenAIDims
    /\ idxDocs = [n \in IndexNames |-> <<>>]
    /\ rc = RcIdle
    /\ ci = [c \in Creators |-> CiIdle]
    /\ wr = WrIdle
    /\ uuidNext = 0
    /\ lc = [c \in Callers |-> LcIdle]
    /\ clock = 0
    /\ nCalls = 0
    /\ app_state = AppIdle
    /\ tg = [c \in Callers |-> TgIdle]
    /\ call_contexts = <<>>
    /\ ph = [r \in Requests |-> PhIdle]
    /\ ended = {}
    /\ ck = CkIdle

\* Whether the store creates a missing index matters only when it is missing.
AutoCreateChoices == IF idxExists[KbIndex] THEN {FALSE} ELSE BOOLEAN

NextWrite ==
    \/ \E doc_id \in DocIdArgs, document \in WriteDocs, fault \in BOOLEAN,
            auto \in AutoCreateChoices :
          index_document(doc_id, document, fault, auto)
    \/ \E fault \in BOOLEAN : delete_index(fault)

SpecWrite == InitWrite /\ [][NextWrite]_vars

\* elasticsearch.helpers.async_bulk(client, actions) with its defaults
\* (raise_on_error, not stats_only), for a batch that fits one chunk: every
\* item is applied on its own, in order.
RECURSIVE BulkItems(_, _, _)
BulkItems(actions, auto, st) ==
    IF actions = <<>> THEN st
    ELSE LET a == Head(actions)
             next ==
                 IF StoreAccepts(st.exists, st.dims, a._source, auto)
                 THEN [st EXCEPT
                          !.exists = TRUE,
                          !.dims = IF st.exists THEN @
                                   ELSE DynamicDims(@, a._source),
                          !.docs = Put(@, a._id, a._source),
                          !.success = @ + 1]
                 ELSE [st EXCEPT !.errors = Append(@, a._id)]
         IN  BulkItems(Tail(actions), auto, next)

\* (success, errors) on return; BulkIndexError when an item was refused.
async_bulk(actions, fault, auto) ==
    LET st0 == [exists |-> idxExists[KbIndex], dims |-> idxDims[KbIndex],
                docs |-> idxDocs[KbIndex], success |-> 0, errors |-> <<>>]
        st == BulkItems(actions, auto, st0)
    IN  IF fault
        THEN [raised |-> "ConnectionError", st |-> st0]
        ELSE IF st.errors # <<>>
        THEN [raised |-> "BulkIndexError", st |-> st]
        ELSE [raised |-> "", st |-> st]

BulkActions(documents) ==
    [i \in 1..Len(documents) |->
        [_index |-> KbIndex, _id |-> Get(documents[i], "id", ""),
         _source |-> documents[i]]]

BatchDocs ==
    {Passage(id, "opening hours", d) : id \in CallerIds, d \in Dimensions}
Batches == UNION {[1..n -> BatchDocs] : n \in 0..MaxBatch}

\* Documents of the batch that the store refuses, given the index as the
\* call finds it.
Refused(documents, auto) ==
    LET st0 == [exists |-> idxExists[KbIndex], dims |-> idxDims[KbIndex],
                docs |-> idxDocs[KbIndex], success |-> 0, errors |-> <<>>]
    IN  Len(BulkItems(BulkActions(documents), auto, st0).errors)

bulk_index(documents, fault, auto) ==
    LET answer == async_bulk(BulkActions(documents), fault, auto)
    IN  /\ \A i \in 1..Len(documents) : "id" \in DOMAIN documents[i]
        /\ idxExists' = [idxExists EXCEPT ![KbIndex] = answer.st.exists]
        /\ idxDims' = [idxDims EXCEPT ![KbIndex] = answer.st.dims]
        /\ idxDocs' = [idxDocs EXCEPT ![KbIndex] = answer.st.docs]
        /\ wr' = [WrIdle EXCEPT
                    !.op = "bulk_index", !.n = Len(documents),
                    !.rejected = IF fault THEN 0 ELSE Refused(documents, auto),
                    !.result = IF answer.raised = "" THEN "returned"
                               ELSE "ElasticsearchError",
                    !.success = IF answer.raised = "" THEN answer.st.success ELSE 0,
                    !.failed = IF answer.raised = "" THEN answer.st.errors ELSE <<>>]
        /\ UNCHANGED <<settings, rag, rc, ci, uuidNext, learnVars, channelVars, ck>>

NextBulk ==
    \/ \E documents \in Batches, fault \in BOOLEAN, auto \in AutoCreateChoices :
          bulk_index(documents, fault, auto)
    \/ \E fault \in BOOLEAN : delete_index(fault)

SpecBulk == InitWrite /\ [][NextBulk]_vars

(***************************************************************************)
(* Properties of document writes                                           *)
(***************************************************************************)
\* C9 (SpecWrite): a successful index_document with an id the index already
\* holds replaces that document, leaving the set of ids, the count and all
\* other documents as they were; with no id it stores the document under an
\* id the index did not hold, so the count grows by one and every existing
\* document is untouched.
C9_IndexDocumentUpsert ==
    [][(wr'.op = "index_document" /\ wr'.result = "True")
          => LET before == idxDocs[KbIndex]
                 after == idxDocs'[KbIndex]
                 doc_id == wr'.doc_id
                 document == wr'.document
             IN  /\ (doc_id # "" /\ doc_id \in DOMAIN before)
                        => /\ DOMAIN after = DOMAIN before
                           /\ after[doc_id] = document
                           /\ \A x \in DOMAIN before \ {doc_id} :
                                 after[x] = before[x]
                 /\ doc_id = ""
                        => /\ wr'.usedId \notin DOMAIN before
                           /\ DOMAIN after = DOMAIN before \cup {wr'.usedId}
                           /\ Cardinality(DOMAIN after)
                                  = Cardinality(DOMAIN before) + 1
                           /\ after[wr'.usedId] = document
                           /\ \A x \in DOMAIN before : after[x] = before[x]]_vars

\* A write replaced the document under a caller's id while a document with
\* a generated id sits next to it.
C9_Witness ==
    /\ wr.op = "index_document" /\ wr.result = "True"
    /\ wr.doc_id \in CallerIds /\ wr.existed
    /\ \E x \in DOMAIN idxDocs[KbIndex] : x \notin CallerIds
    /\ Cardinality(DOMAIN idxDocs[KbIndex]) = 2

\* C10 (SpecBulk): whenever the store answers a batch sent to the existing
\* index, bulk_index returns counts, success + failed = N with failed the
\* number of refused documents, and every accepted document is in the index
\* under its id.
C10_BulkIndexReportsCounts ==
    [][\A documents \in Batches, auto \in BOOLEAN :
          (idxExists[KbIndex] /\ bulk_index(documents, FALSE, auto))
              => /\ wr'.result = "returned"
                 /\ wr'.success + Len(wr'.failed) = Len(documents)
                 /\ Len(wr'.failed) = wr'.rejected
                 /\ \A i \in 1..Len(documents) :
                       StoreAccepts(idxExists'[KbIndex], idxDims'[KbIndex],
                                    documents[i], auto)
                           => /\ documents[i].id \in DOMAIN idxDocs'[KbIndex]
                              /\ idxDocs'[KbIndex][documents[i].id] = documents[i]]_vars

(***************************************************************************)
(* LearningService: store_conversation and update_feedback                 *)
(***************************************************************************)
\* `x or default` on an Optional string: None and "" are both falsy.
StrOr(x, default) == IF x.given /\ x.val # "" THEN x.val ELSE default

\* Two ticks of the clock: calls fall into the same tick or into different
\* ones.
Ticks == {0, 1}

ConversationTexts == [question |-> "opening hours", answer |-> "refund policy"]
UserIdArgs == {None, Some("u1")}
\* update_feedback takes any string.
FeedbackArgs == {"positive", "great"}
FeedbackValues == {"positive", "negative", "neutral"}

\* f"conv_{datetime.utcnow().timestamp()}_{user_id or 'anon'}"
ConversationId(now, user_id) ==
    "conv_" \o ToString(now) \o "_" \o StrOr(user_id, "anon")
ConversationIds == {ConversationId(t, u) : t \in Ticks, u \in UserIdArgs}

\* The document store_conversation builds; chat_id, context_used,
\* session_id and processing_time_ms are left at their defaults.
ConversationRecord(call, doc_id, now) ==
    [id |-> doc_id,
     question |-> call.question,
     question_embedding |-> call.question_embedding,
     answer |-> call.answer,
     answer_embedding |-> call.answer_embedding,
     user_id |-> call.user_id,
     chat_id |-> None,
     timestamp |-> now,
     feedback |-> "neutral",
     context_used |-> None,
     metadata |-> [channel |-> "telegram", session_id |-> None,
                   language |-> "auto", processing_time_ms |-> None]]

\* await self.rag_service.generate_embedding(text): RAGError when the
\* provider fails (`ok` false) or when there is no embedding service
\* (keyword-only fallback: self.embedding_service is None).
EmbeddingAnswer(text, ok) ==
    IF rag.use_keyword_search \/ ~ok
    THEN [raised |-> TRUE, vector |-> NoVector]
    ELSE [raised |-> FALSE, vector |-> Embed(rag.use_local, text)]

\* The conversation index takes a record iff both dense_vector fields have
\* the length of the mapping; a missing index is created by the write when
\* the store is set to do so.
ConversationAccepted(document, auto) ==
    IF idxExists[LearningIndex]
    THEN /\ document.question_embedding.dims = idxDims[LearningIndex]
         /\ document.answer_embedding.dims = idxDims[LearningIndex]
    ELSE auto

\* Variant: the exception is logged and raised again.
ReturnFalse_Raises(call) == [call EXCEPT !.pc = "done", !.result = "raised"]

\* The except clause of the LearningService operations: log, return False.
ReturnFalse(call) == [call EXCEPT !.pc = "done", !.result = "False"]

\* A call of store_conversation enters its try block.
store_conversation(c, user_id) ==
    /\ lc[c].pc = "idle"
    /\ nCalls < MaxCalls
    /\ nCalls' = nCalls + 1
    /\ lc' = [lc EXCEPT ![c] =
                [LcIdle EXCEPT !.pc = "embed_question",
                               !.op = "store_conversation",
                               !.question = ConversationTexts.question,
                               !.answer = ConversationTexts.answer,
                               !.user_id = user_id]]
    /\ UNCHANGED <<storeVars, settings, rag, rc, ci, wr, uuidNext, clock, channelVars, ck>>

\* question_embedding = await self.rag_service.generate_embedding(question)
store_embed_question(c, ok) ==
    /\ lc[c].pc = "embed_question"
    /\ LET answer == EmbeddingAnswer(lc[c].question, ok)
           sent == [lc[c] EXCEPT !.embedReqs = @ + 1]
       IN  lc' = [lc EXCEPT ![c] =
                    IF answer.raised THEN ReturnFalse(sent)
                    ELSE [sent EXCEPT !.pc = "embed_answer",
                                      !.question_embedding = answer.vector]]
    /\ UNCHANGED <<storeVars, settings, rag, rc, ci, wr, uuidNext, clock, nCalls, channelVars, ck>>

\* Variant: the answer is not embedded, the question's vector is used again.
store_embed_answer_Reuses(c, ok) ==
    /\ lc[c].pc = "embed_answer"
    /\ lc' = [lc EXCEPT ![c] =
                [lc[c] EXCEPT !.pc = "index",
                              !.answer_embedding = lc[c].question_embedding]]
    /\ UNCHANGED <<storeVars, settings, rag, rc, ci, wr, uuidNext, clock, nCalls, channelVars, ck>>

\* answer_embedding = await self.rag_service.generate_embedding(answer)
store_embed_answer(c, ok) ==
    /\ lc[c].pc = "embed_answer"
    /\ LET answer == EmbeddingAnswer(lc[c].answer, ok)
           sent == [lc[c] EXCEPT !.embedReqs = @ + 1]
       IN  lc' = [lc EXCEPT ![c] =
                    IF answer.raised THEN ReturnFalse(sent)
                    ELSE [sent EXCEPT !.pc = "index",
                                      !.answer_embedding = answer.vector]]
    /\ UNCHANGED <<storeVars, settings, rag, rc, ci, wr, uuidNext, clock, nCalls, channelVars, ck>>

\* doc_id and document are built from utcnow(), then
\* `await self.es_client.client.index(index, id=doc_id, document=document)`.
store_index(c, fault, auto) ==
    /\ lc[c].pc = "index"
    /\ LET doc_id == ConversationId(clock, lc[c].user_id)
           document == ConversationRecord(lc[c], doc_id, clock)
           ok == ~fault /\ ConversationAccepted(document, auto)
           sent == [lc[c] EXCEPT !.writes = @ + 1, !.doc_id = doc_id,
                       !.existed = doc_id \in DOMAIN idxDocs[LearningIndex]]
       IN  /\ lc' = [lc EXCEPT ![c] =
                       IF ok THEN [sent EXCEPT !.pc = "done", !.result = "True"]
                       ELSE ReturnFalse(sent)]
           /\ IF ok
              THEN /\ idxExists' = [idxExists EXCEPT ![LearningIndex] = TRUE]
                   /\ idxDims' = [idxDims EXCEPT ![LearningIndex] =
                                     IF idxExists[LearningIndex] THEN @
                                     ELSE document.question_embedding.dims]
                   /\ idxDocs' = [idxDocs EXCEPT ![LearningIndex] =
                                     Put(@, doc_id, document)]
              ELSE UNCHANGED storeVars
    /\ UNCHANGED <<settings, rag, rc, ci, wr, uuidNext, clock, nCalls, channelVars, ck>>

\* The caller has the bool; its next call may start.
learning_return(c) ==
    /\ lc[c].pc = "done"
    /\ lc' = [lc EXCEPT ![c] = LcIdle]
    /\ UNCHANGED <<storeVars, settings, rag, rc, ci, wr, uuidNext, clock, nCalls, channelVars, ck>>

\* Time passes.
tick ==
    /\ clock + 1 \in Ticks
    /\ clock' = clock + 1
    /\ UNCHANGED <<storeVars, settings, rag, rc, ci, wr, uuidNext, lc, nCalls, channelVars, ck>>

\* The store's partial update, `{"doc": patch}`: the fields of the patch are
\* merged into the stored document.
Merge(document, patch) ==
    [x \in DOMAIN document \cup DOMAIN patch |->
        IF x \in DOMAIN patch THEN patch[x] ELSE document[x]]

\* The store refuses an update of a document, or in an index, that is not
\* there (document_missing_exception, index_not_found_exception).
UpdateRefused(conversation_id, fault) ==
    \/ fault
    \/ ~idxExists[LearningIndex]
    \/ conversation_id \notin DOMAIN idxDocs[LearningIndex]

\* The isoformat timestamp of the update is kept as the marker "utcnow".
FeedbackPatch(feedback) ==
    [feedback |-> feedback, feedback_updated_at |-> "utcnow"]

\* Variant: the update is sent with doc_as_upsert, so that a missing
\* document is created from the patch.
update_feedback_Upserts(conversation_id, feedback, fault) ==
    /\ IF fault \/ ~idxExists[LearningIndex]
       THEN UNCHANGED storeVars
       ELSE /\ idxDocs' = [idxDocs EXCEPT ![LearningIndex] =
                              Put(@, conversation_id,
                                  Merge(Get(@, conversation_id, <<>>),
                                        FeedbackPatch(feedback)))]
            /\ UNCHANGED <<idxExists, idxDims>>
    /\ wr' = [WrIdle EXCEPT
                !.op = "update_feedback", !.doc_id = conversation_id,
                !.existed = conversation_id \in DOMAIN idxDocs[LearningIndex],
                !.document = FeedbackPatch(feedback),
                !.result = IF fault \/ ~idxExists[LearningIndex]
                           THEN "False" ELSE "True"]
    /\ UNCHANGED <<settings, rag, rc, ci, uuidNext, learnVars, channelVars, ck>>

\* An update that also takes the passage promoted from the record out of
\* the knowledge base.
update_feedback_Demotes(conversation_id, feedback, fault) ==
    /\ IF UpdateRefused(conversation_id, fault)
       THEN UNCHANGED storeVars
       ELSE /\ idxDocs' = [idxDocs EXCEPT
                              ![LearningIndex][conversation_id] =
                                 Merge(@, FeedbackPatch(feedback)),
                              ![KbIndex] =
                                 [x \in DOMAIN @ \ {"learned_" \o conversation_id}
                                     |-> @[x]]]
            /\ UNCHANGED <<idxExists, idxDims>>
    /\ wr' = [WrIdle EXCEPT
                !.op = "update_feedback", !.doc_id = conversation_id,
                !.existed = conversation_id \in DOMAIN idxDocs[LearningIndex],
                !.document = FeedbackPatch(feedback),
                !.result = IF UpdateRefused(conversation_id, fault)
                           THEN "False" ELSE "True"]
    /\ UNCHANGED <<settings, rag, rc, ci, uuidNext, learnVars, channelVars, ck>>

\* update_feedback: one `client.update` request; any exception gives False.
update_feedback(conversation_id, feedback, fault) ==
    /\ IF UpdateRefused(conversation_id, fault)
       THEN UNCHANGED storeVars
       ELSE /\ idxDocs' = [idxDocs EXCEPT ![LearningIndex][conversation_id] =
                              Merge(@, FeedbackPatch(feedback))]
            /\ UNCHANGED <<idxExists, idxDims>>
    /\ wr' = [WrIdle EXCEPT
                !.op = "update_feedback", !.doc_id = conversation_id,
                !.existed = conversation_id \in DOMAIN idxDocs[LearningIndex],
                !.document = FeedbackPatch(feedback),
                !.result = IF UpdateRefused(conversation_id, fault)
                           THEN "False" ELSE "True"]
    /\ UNCHANGED <<settings, rag, rc, ci, uuidNext, learnVars, channelVars, ck>>

\* A deployment whose conversation index is absent or was created by
\* ensure_learning_index and is still empty.
InitLearning ==
    /\ settings \in SettingsChoices
    /\ settings.min_similarity_score = DefaultMinSimilarityScore
    /\ settings.embedding_dimension = ProviderDims(settings.use_local_models)
    /\ \E loaded \in BOOLEAN : rag = RAGService(settings, loaded)
    /\ idxExists \in [IndexNames -> BOOLEAN]
    /\ idxExists[KbIndex]
    /\ idxDims = [n \in IndexNames |->
                    IF n = KbIndex THEN settings.embedding_dimension
                    ELSE LearningIndexDims]
    /\ idxDocs = [n \in IndexNames |-> <<>>]
    /\ rc = RcIdle
    /\ ci = [c \in Creators |-> CiIdle]
    /\ wr = WrIdle
    /\ uuidNext = 0
    /\ lc = [c \in Callers |-> LcIdle]
    /\ clock = 0
    /\ nCalls = 0
    /\ app_state = AppIdle
    /\ tg = [c \in Callers |-> TgIdle]
    /\ call_contexts = <<>>
    /\ ph = [r \in Requests |-> PhIdle]
    /\ ended = {}
    /\ ck = CkIdle

UpdateIdArgs == ConversationIds \cup {"conv_9_nobody"}

NextLearning ==
    \/ \E c \in Callers, user_id \in UserIdArgs : store_conversation(c, user_id)
    \/ \E c \in Callers, ok \in BOOLEAN : store_embed_question(c, ok)
    \/ \E c \in Callers, ok \in BOOLEAN : store_embed_answer(c, ok)
    \/ \E c \in Callers, fault, auto \in BOOLEAN : store_index(c, fault, auto)
    \/ \E c \in Callers : learning_return(c)
    \/ tick
    \/ \E id \in UpdateIdArgs, feedback \in FeedbackArgs, fault \in BOOLEAN :
          update_feedback(id, feedback, fault)

SpecLearning == InitLearning /\ [][NextLearning]_vars

(***************************************************************************)
(* LearningService.promote_to_knowledge_base and the admin endpoint        *)
(***************************************************************************)
DocTypeArgs == {"learned_faq"}
ProductArgs == {"general", "billing"}

\* f"Q: {conv['question']}\n\nA: {conv['answer']}"
PromotedText(question, answer) == "Q: " \o question \o "\n\nA: " \o answer

\* One id for every promoted passage.
PromotedId_Shared(conversation_id) == "learned_"

\* f"learned_{conversation_id}"
PromotedId(conversation_id) == "learned_" \o conversation_id

\* Variant: the passage carries the vector of the answer.
PromotedPassage_AnswerEmbedding(conversation_id, conv, doc_type, product) ==
    [id |-> PromotedId(conversation_id),
     text |-> PromotedText(conv.question, conv.answer),
     embedding |-> conv.answer_embedding,
     metadata |-> [source |-> "learned_from_conversations",
                   doc_type |-> doc_type, product |-> product,
                   language |-> "en", created_at |-> "utcnow",
                   original_conversation_id |-> conversation_id,
                   promoted_at |-> "utcnow"]]

\* kb_doc; created_at and promoted_at are kept as the marker "utcnow".
PromotedPassage(conversation_id, conv, doc_type, product) ==
    [id |-> PromotedId(conversation_id),
     text |-> PromotedText(conv.question, conv.answer),
     embedding |-> conv.question_embedding,
     metadata |-> [source |-> "learned_from_conversations",
                   doc_type |-> doc_type, product |-> product,
                   language |-> "en", created_at |-> "utcnow",
                   original_conversation_id |-> conversation_id,
                   promoted_at |-> "utcnow"]]

\* Variant: the endpoint answers 200 whatever the engine returned.
promote_conversation_AlwaysSuccess(success) ==
    [status_code |-> 200, status |-> "success"]

\* routes/admin.py promote_conversation, after the await: the success body,
\* or HTTPException(500), which its own except clause raises again as 500.
promote_conversation(success) ==
    IF success = "True"
    THEN [status_code |-> 200, status |-> "success"]
    ELSE [status_code |-> 500, status |-> "error"]

PromoteDone(call, result) ==
    [call EXCEPT !.pc = "done", !.result = result,
                 !.response = promote_conversation(result)]

\* client.get is refused for a missing index or document, and the reads of
\* conv[...] raise KeyError on a record without these fields.
GetRefused(conversation_id, fault) ==
    \/ fault
    \/ ~idxExists[LearningIndex]
    \/ conversation_id \notin DOMAIN idxDocs[LearningIndex]
    \/ ~({"question", "answer", "question_embedding"}
            \subseteq DOMAIN idxDocs[LearningIndex][conversation_id])

\* promote_to_knowledge_base up to kb_doc, i.e. over its `client.get`.
promote_to_knowledge_base(c, conversation_id, doc_type, product, fault) ==
    /\ lc[c].pc = "idle"
    /\ LET entered == [LcIdle EXCEPT !.op = "promote_to_knowledge_base",
                                     !.conversation_id = conversation_id]
       IN  lc' = [lc EXCEPT ![c] =
                    IF GetRefused(conversation_id, fault)
                    THEN PromoteDone(entered, "False")
                    ELSE [entered EXCEPT
                            !.pc = "promote_index",
                            !.seen = idxDocs[LearningIndex][conversation_id],
                            !.kb_doc = PromotedPassage(conversation_id,
                                          idxDocs[LearningIndex][conversation_id],
                                          doc_type, product)]]
    /\ UNCHANGED <<storeVars, settings, rag, rc, ci, wr, uuidNext, clock, nCalls, channelVars, ck>>

\* Variant: a successful promotion also marks the source record.
promote_index_MarksSource(c, fault, auto) ==
    /\ lc[c].pc = "promote_index"
    /\ LET document == lc[c].kb_doc
           id == DocIdFor(document.id, uuidNext + 1)
           source == lc[c].conversation_id
           ok == ~fault /\ StoreAccepts(idxExists[KbIndex], idxDims[KbIndex],
                                        document, auto)
           sent == [lc[c] EXCEPT !.writes = @ + 1, !.doc_id = id,
                       !.existed = id \in DOMAIN idxDocs[KbIndex]]
       IN  /\ lc' = [lc EXCEPT ![c] =
                       PromoteDone(sent, IF ok THEN "True" ELSE "False")]
           /\ IF ok
              THEN /\ idxExists' = [idxExists EXCEPT ![KbIndex] = TRUE]
                   /\ idxDims' = [idxDims EXCEPT ![KbIndex] =
                                     IF idxExists[KbIndex] THEN @
                                     ELSE DynamicDims(@, document)]
                   /\ idxDocs' = [idxDocs EXCEPT
                         ![KbIndex] = Put(@, id, document),
                         ![LearningIndex] =
                             IF source \in DOMAIN @
                             THEN Put(@, source, Merge(@[source], [promoted |-> TRUE]))
                             ELSE @]
              ELSE UNCHANGED storeVars
    /\ UNCHANGED <<settings, rag, rc, ci, wr, uuidNext, clock, nCalls, channelVars, ck>>

\* `await self.es_client.index_document(doc_id=kb_doc["id"], document=kb_doc)`
\* and the return; ElasticsearchError ends in the except clause.
promote_index(c, fault, auto) ==
    /\ lc[c].pc = "promote_index"
    /\ LET document == lc[c].kb_doc
           id == DocIdFor(document.id, uuidNext + 1)
           ok == ~fault /\ StoreAccepts(idxExists[KbIndex], idxDims[KbIndex],
                                        document, auto)
           sent == [lc[c] EXCEPT !.writes = @ + 1, !.doc_id = id,
                       !.existed = id \in DOMAIN idxDocs[KbIndex]]
       IN  /\ lc' = [lc EXCEPT ![c] =
                       PromoteDone(sent, IF ok THEN "True" ELSE "False")]
           /\ IF ok
              THEN /\ idxExists' = [idxExists EXCEPT ![KbIndex] = TRUE]
                   /\ idxDims' = [idxDims EXCEPT ![KbIndex] =
                                     IF idxExists[KbIndex] THEN @
                                     ELSE DynamicDims(@, document)]
                   /\ idxDocs' = [idxDocs EXCEPT ![KbIndex] = Put(@, id, document)]
              ELSE UNCHANGED storeVars
    /\ UNCHANGED <<settings, rag, rc, ci, wr, uuidNext, clock, nCalls, channelVars, ck>>

(***************************************************************************)
(* The other write paths into the knowledge base                           *)
(***************************************************************************)
\* DataIngestionCLI.ingest_documents, one turn of its loop: embed the
\* content, then index_document without an id.
ingest_documents(text, ok, fault, auto) ==
    IF EmbeddingAnswer(text, ok).raised
    THEN /\ wr' = [WrIdle EXCEPT !.op = "ingest_documents", !.n = 1,
                                 !.result = "failed"]
         /\ UNCHANGED <<storeVars, settings, rag, rc, ci, uuidNext, learnVars, channelVars, ck>>
    ELSE index_document("", ContentDoc(text, EmbeddingAnswer(text, ok).vector.dims),
                        fault, auto)

\* The texts of the first n chunks of faq.txt.
ChunkTexts(n) ==
    [i \in 1..n |-> IF i = 1 THEN "opening hours" ELSE "refund policy"]

\* `self.openai_client.embeddings.create(model, input=texts)`: one item per
\* input, in the order of the inputs.  An engine on local models has no
\* attribute openai_client, and the provider refuses an empty input.
EmbeddingsCreate(texts, ok) ==
    IF rag.use_local \/ ~ok \/ Len(texts) = 0
    THEN [raised |-> TRUE, data |-> <<>>]
    ELSE [raised |-> FALSE,
          data |-> [i \in 1..Len(texts) |->
                      [index |-> i - 1, embedding |-> Embed(FALSE, texts[i])]]]

\* The batch with the embedding of its last input missing.
generate_embeddings_batch_Partial(texts, ok) ==
    LET response == EmbeddingsCreate(texts, TRUE)
    IN  [raised |-> response.raised,
         embeddings |-> [i \in 1..Len(response.data) - 1 |->
                            response.data[i].embedding]]

\* RAGService.generate_embeddings_batch: the embeddings of response.data in
\* its order, or RAGError for whatever the request raised.
generate_embeddings_batch(texts, ok) ==
    LET response == EmbeddingsCreate(texts, ok)
    IN  IF response.raised
        THEN [raised |-> TRUE, embeddings |-> <<>>]
        ELSE [raised |-> FALSE,
              embeddings |-> [i \in 1..Len(response.data) |->
                                 response.data[i].embedding]]

\* `documents`: zip(chunks, embeddings) with the ids of the chunks.
FileDocuments(chunk_texts, embeddings) ==
    [i \in 1..Min(Len(chunk_texts), Len(embeddings)) |->
        [id |-> "p" \o ToString(i), text |-> chunk_texts[i],
         embedding |-> embeddings[i],
         metadata |-> [source |-> "faq.txt"]]]

\* The documents ingest_file builds from the first n chunks of faq.txt.
FileChunks(n) ==
    [i \in 1..n |-> Passage("p" \o ToString(i), ChunkTexts(n)[i], OpenAIDims)]

\* DocumentIngester.ingest_file: generate_embeddings_batch, then bulk_index.
ingest_file(n, ok, fault, auto) ==
    LET batch == generate_embeddings_batch(ChunkTexts(n), ok)
    IN  IF batch.raised
        THEN /\ wr' = [WrIdle EXCEPT !.op = "ingest_file", !.n = n,
                                     !.result = "embedding_failed"]
             /\ UNCHANGED <<storeVars, settings, rag, rc, ci, uuidNext, learnVars, channelVars, ck>>
        ELSE bulk_index(FileDocuments(ChunkTexts(n), batch.embeddings),
                        fault, auto)

\* A conversation record as a store_conversation of an engine whose
\* provider gives vectors of length dims has written it.
StoredConversation(now, user_id, dims) ==
    ConversationRecord(
        [LcIdle EXCEPT
            !.question = ConversationTexts.question,
            !.answer = ConversationTexts.answer,
            !.user_id = user_id,
            !.question_embedding =
                [dims |-> dims, dir |-> Dir(ConversationTexts.question)],
            !.answer_embedding =
                [dims |-> dims, dir |-> Dir(ConversationTexts.answer)]],
        ConversationId(now, user_id), now)

\* The records the conversation index may hold: per id none, the record as
\* written, or the record after an update_feedback.
ConversationContents(dims) ==
    LET rec(id) == CHOOSE r \in {StoredConversation(t, u, dims) :
                                    t \in Ticks, u \in UserIdArgs} : r.id = id
        ids == {ConversationId(0, None), ConversationId(1, Some("u1"))}
    IN  UNION {[S -> {rec(id) : id \in S}
                       \cup {Merge(rec(id), FeedbackPatch("positive")) : id \in S}]
                  : S \in SUBSET ids}

\* A running deployment: the conversation index holds records of one
\* provider, the knowledge-base index is empty or absent.
InitPromote ==
    /\ settings \in SettingsChoices
    /\ settings.min_similarity_score = DefaultMinSimilarityScore
    /\ settings.embedding_dimension = ProviderDims(settings.use_local_models)
    /\ rag = RAGService(settings, TRUE)
    /\ idxExists \in [IndexNames -> BOOLEAN]
    /\ idxExists[LearningIndex]
    /\ idxDims \in [IndexNames -> Dimensions]
    /\ idxDims[KbIndex] = settings.embedding_dimension
    /\ \E docs \in ConversationContents(idxDims[LearningIndex]) :
          /\ \A id \in DOMAIN docs : docs[id].id = id
          /\ idxDocs = [n \in IndexNames |->
                          IF n = LearningIndex THEN docs ELSE <<>>]
    /\ rc = RcIdle
    /\ ci = [c \in Creators |-> CiIdle]
    /\ wr = WrIdle
    /\ uuidNext = 0
    /\ lc = [c \in Callers |-> LcIdle]
    /\ clock = 0
    /\ nCalls = 0
    /\ app_state = AppIdle
    /\ tg = [c \in Callers |-> TgIdle]
    /\ call_contexts = <<>>
    /\ ph = [r \in Requests |-> PhIdle]
    /\ ended = {}
    /\ ck = CkIdle

PromoteIdArgs == {ConversationId(0, None), ConversationId(1, Some("u1"))}

NextPromote ==
    \/ \E c \in Callers, id \in PromoteIdArgs, doc_type \in DocTypeArgs,
          product \in ProductArgs, fault \in BOOLEAN :
          promote_to_knowledge_base(c, id, doc_type, product, fault)
    \/ \E c \in Callers, fault \in BOOLEAN, auto \in AutoCreateChoices :
          promote_index(c, fault, auto)
    \/ \E c \in Callers : learning_return(c)
    \/ \E fault \in BOOLEAN :
          update_feedback(ConversationId(0, None), "negative", fault)

SpecPromote == InitPromote /\ [][NextPromote]_vars

\* The three write paths into one knowledge-base index: the CLI has made
\* sure the index exists, and the conversation index holds two records.
InitIngest ==
    /\ InitPromote
    /\ idxExists[KbIndex]
    /\ DOMAIN idxDocs[LearningIndex] = PromoteIdArgs
    /\ \A id \in PromoteIdArgs : idxDocs[LearningIndex][id].feedback = "neutral"

NextIngest ==
    \/ \E id \in PromoteIdArgs, fault \in BOOLEAN :
          promote_to_knowledge_base("a", id, "learned_faq", "general", fault)
    \/ \E fault \in BOOLEAN, auto \in AutoCreateChoices :
          promote_index("a", fault, auto)
    \/ learning_return("a")
    \/ \E text \in DocTexts, ok, fault \in BOOLEAN, auto \in AutoCreateChoices :
          ingest_documents(text, ok, fault, auto)
    \/ \E n \in 1..MaxBatch, ok, fault \in BOOLEAN, auto \in AutoCreateChoices :
          ingest_file(n, ok, fault, auto)

SpecIngest == InitIngest /\ [][NextIngest]_vars

(***************************************************************************)
(* Properties of the conversation store (checked under SpecLearning)       *)
(***************************************************************************)
Conversations == idxDocs[LearningIndex]

\* The step is the store request of caller c's store_conversation, and the
\* store took the record.
Stored(c) ==
    /\ lc[c].pc = "index"
    /\ lc'[c].pc = "done" /\ lc'[c].result = "True"

\* The step is an update_feedback on `id` that returned True.
FeedbackUpdated(id) ==
    /\ learnVars' = learnVars
    /\ wr'.op = "update_feedback" /\ wr'.doc_id = id /\ wr'.result = "True"

\* C12: a store_conversation that returns True has made two embedding calls,
\* of the question and then of the answer, and one write, of a record with
\* feedback neutral; and a record's feedback leaves neutral only in a
\* successful update_feedback on its id.
C12_TwoEmbeddingsThenNeutralRecord ==
    [][/\ \A c \in Callers :
             /\ lc'[c].pc = "embed_answer" =>
                   /\ lc'[c].embedReqs = 1 /\ lc'[c].writes = 0
                   /\ lc'[c].question_embedding
                          = Embed(rag.use_local, lc'[c].question)
             /\ Stored(c) =>
                   LET written == idxDocs'[LearningIndex][lc'[c].doc_id]
                   IN  /\ lc'[c].embedReqs = 2 /\ lc'[c].writes = 1
                       /\ written.question_embedding
                              = Embed(rag.use_local, lc[c].question)
                       /\ written.answer_embedding
                              = Embed(rag.use_local, lc[c].answer)
                       /\ written.feedback = "neutral"
       /\ \A id \in DOMAIN idxDocs'[LearningIndex] :
             IF id \in DOMAIN Conversations
             THEN (/\ Conversations[id].feedback = "neutral"
                   /\ idxDocs'[LearningIndex][id].feedback # "neutral")
                      => FeedbackUpdated(id)
             ELSE idxDocs'[LearningIndex][id].feedback = "neutral"]_vars

\* One caller has its True while a record it did not touch has had its
\* feedback set.
C12_Witness ==
    \E c \in Callers, id \in DOMAIN Conversations :
        /\ lc[c].op = "store_conversation"
        /\ lc[c].pc = "done" /\ lc[c].result = "True"
        /\ lc[c].embedReqs = 2
        /\ lc[c].doc_id # id
        /\ Conversations[lc[c].doc_id].feedback = "neutral"
        /\ Conversations[id].feedback = "positive"

\* C13: store_conversation gives its caller True or False and nothing else.
\* A call whose embedding request fails, or that has no embedding service
\* (keyword-only fallback), returns False without having sent a write and
\* leaves the store as it was; a call whose write fails returns False and
\* leaves the store as it was.
C13_StoreConversationNeverRaises ==
    [][\A c \in Callers :
          (lc[c].op = "store_conversation" /\ lc'[c].pc = "done")
              => /\ lc'[c].result \in {"True", "False"}
                 /\ lc[c].pc \in {"embed_question", "embed_answer"}
                       => /\ lc'[c].result = "False"
                          /\ lc'[c].writes = 0
                          /\ storeVars' = storeVars
                 /\ rag.use_keyword_search
                       => /\ lc'[c].result = "False"
                          /\ lc'[c].writes = 0
                          /\ idxDocs'[LearningIndex] = <<>>
                 /\ (lc[c].pc = "index" /\ lc'[c].result = "False")
                       => storeVars' = storeVars]_vars

\* An engine in keyword-only fallback has answered a store_conversation
\* with False after one attempt to embed, and the index is empty.
C13_Witness ==
    \E c \in Callers :
        /\ rag.use_keyword_search
        /\ lc[c].op = "store_conversation"
        /\ lc[c].pc = "done" /\ lc[c].result = "False"
        /\ lc[c].embedReqs = 1 /\ lc[c].writes = 0
        /\ Conversations = <<>>

\* C14: two store_conversation calls that both returned True wrote under
\* different ids, so the index holds a record for each of them.
C14_ConcurrentStoresIndependent ==
    \A c1, c2 \in Callers :
        (/\ c1 # c2
         /\ lc[c1].op = "store_conversation" /\ lc[c2].op = "store_conversation"
         /\ lc[c1].pc = "done" /\ lc[c2].pc = "done"
         /\ lc[c1].result = "True" /\ lc[c2].result = "True")
            => /\ lc[c1].doc_id # lc[c2].doc_id
               /\ Cardinality(DOMAIN Conversations) >= 2

\* C15: an update_feedback on an id the conversation index does not hold
\* returns False, creates no record and leaves every record as it was.
C15_UpdateOfMissingIdChangesNothing ==
    [][(/\ learnVars' = learnVars
        /\ wr'.op = "update_feedback"
        /\ wr'.doc_id \notin DOMAIN Conversations)
           => /\ wr'.result = "False"
              /\ storeVars' = storeVars]_vars

\* The last call was an update_feedback on an id that the index, which
\* holds a record, does not have.
C15_Witness ==
    /\ wr.op = "update_feedback" /\ ~wr.existed /\ wr.result = "False"
    /\ wr.doc_id \notin DOMAIN Conversations
    /\ Conversations # <<>>

\* C16: a successful update_feedback sets the feedback of the addressed
\* record to the value passed and leaves the record's other fields, its set
\* of fields and all other records as they were.
C16_UpdateChangesFeedbackOnly ==
    [][(/\ learnVars' = learnVars
        /\ wr'.op = "update_feedback" /\ wr'.result = "True")
           => LET id == wr'.doc_id
                  before == Conversations[id]
                  after == idxDocs'[LearningIndex][id]
              IN  /\ after.feedback = wr'.document.feedback
                  /\ DOMAIN after = DOMAIN before
                  /\ \A f \in (DOMAIN before \cap DOMAIN after) \ {"feedback"} :
                        after[f] = before[f]
                  /\ DOMAIN idxDocs'[LearningIndex] = DOMAIN Conversations
                  /\ \A other \in DOMAIN Conversations \ {id} :
                        idxDocs'[LearningIndex][other] = Conversations[other]]_vars

\* C17: the feedback of every conversation record is one of positive,
\* negative and neutral.
C17_FeedbackInDomain ==
    \A id \in DOMAIN Conversations :
        Conversations[id].feedback \in FeedbackValues

(***************************************************************************)
(* Properties of the knowledge base's write paths (SpecIngest)             *)
(***************************************************************************)
\* The text a write path stored in a document: 'text', or the CLI's
\* 'content'.
StoredText(document) == Get(document, "text", Get(document, "content", ""))

\* The hits of a search answer that refer to document id.
HitsOf(answer, id) ==
    {answer.results[i] : i \in {j \in 1..Len(answer.results) :
                                   answer.results[j].id = id}}

\* C11: for every document a write path has put into the knowledge base,
\* neither search mode fails, the vector search with the document's own
\* vector returns it, and every hit for it in either mode carries id,
\* score, text and metadata, with the text that was stored.
C11_WrittenDocumentsRoundTrip ==
    LET docs == idxDocs[KbIndex]
        k == Cardinality(DOMAIN docs)
    IN  \A id \in DOMAIN docs :
            LET stored == StoredText(docs[id])
                v == vector_search([dims |-> idxDims[KbIndex],
                                    dir |-> docs[id].embedding.dir],
                                   k, Some(1), FALSE)
                w == keyword_search(stored, k, FALSE)
            IN  /\ v.raised = "" /\ w.raised = ""
                /\ HitsOf(v, id) # {}
                /\ \A h \in HitsOf(v, id) \cup HitsOf(w, id) :
                      /\ DOMAIN h = {"id", "score", "text", "metadata"}
                      /\ h.text = stored

(***************************************************************************)
(* Properties of promotion (checked under SpecPromote)                     *)
(***************************************************************************)
KnowledgeBase == idxDocs[KbIndex]

\* The step takes caller c's promotion, or its entry, to its return.
PromotionEnds(c) ==
    /\ lc'[c].op = "promote_to_knowledge_base"
    /\ lc[c].pc # "done" /\ lc'[c].pc = "done"

\* C18: a promotion that returns True has written one passage and nothing
\* else to the knowledge base: its id is "learned_" + convId, its metadata
\* names convId as original_conversation_id, its text is question and
\* answer together, and its embedding is the record's question_embedding;
\* the call has asked the embedding provider for nothing.
C18_PromotionWritesOnePassage ==
    [][\A c \in Callers :
          (PromotionEnds(c) /\ lc'[c].result = "True")
              => LET convId == lc'[c].conversation_id
                     conv == Conversations[convId]
                     id == "learned_" \o convId
                     after == idxDocs'[KbIndex]
                 IN  /\ DOMAIN after = DOMAIN KnowledgeBase \cup {id}
                     /\ \A x \in DOMAIN KnowledgeBase \ {id} :
                           after[x] = KnowledgeBase[x]
                     /\ after[id].id = id
                     /\ after[id].metadata.original_conversation_id = convId
                     /\ after[id].text
                            = "Q: " \o conv.question \o "\n\nA: " \o conv.answer
                     /\ after[id].embedding = conv.question_embedding
                     /\ lc'[c].embedReqs = 0 /\ lc'[c].writes = 1]_vars

\* A promotion has returned True and its passage is in the knowledge base
\* next to the passage of another promotion.
C18_Witness ==
    \E c \in Callers :
        /\ lc[c].op = "promote_to_knowledge_base"
        /\ lc[c].pc = "done" /\ lc[c].result = "True"
        /\ PromotedId(lc[c].conversation_id) \in DOMAIN KnowledgeBase
        /\ Cardinality(DOMAIN KnowledgeBase) = 2

\* C19: no step of promote_to_knowledge_base, whether the call succeeds or
\* fails, changes the conversation index.
C19_PromotionLeavesConversations ==
    [][\A c \in Callers :
          (lc'[c] # lc[c] /\ lc'[c].op = "promote_to_knowledge_base")
              => /\ idxDocs'[LearningIndex] = Conversations
                 /\ idxExists'[LearningIndex] = idxExists[LearningIndex]
                 /\ idxDims'[LearningIndex] = idxDims[LearningIndex]]_vars

\* One promotion has succeeded and one has failed, and the conversation
\* index, whose first record has had feedback since, holds its two records.
C19_Witness ==
    \E c1, c2 \in Callers :
        /\ lc[c1].op = "promote_to_knowledge_base"
        /\ lc[c1].pc = "done" /\ lc[c1].result = "True"
        /\ lc[c2].op = "promote_to_knowledge_base"
        /\ lc[c2].pc = "done" /\ lc[c2].result = "False"
        /\ DOMAIN Conversations = PromoteIdArgs
        /\ Conversations[ConversationId(0, None)].feedback = "negative"

\* C20: a promotion that fails returns False, and the admin endpoint
\* answers it with an error and a success with 200; a failed call leaves
\* the store as it was, and a call for an id the conversation index does
\* not hold fails without having sent a write.
C20_PromotionFailureReported ==
    [][\A c \in Callers :
          PromotionEnds(c)
              => /\ lc'[c].result \in {"True", "False"}
                 /\ lc'[c].response.status_code
                        = IF lc'[c].result = "True" THEN 200 ELSE 500
                 /\ lc'[c].result = "False" => storeVars' = storeVars
                 /\ lc'[c].conversation_id \notin DOMAIN Conversations
                       => /\ lc'[c].result = "False"
                          /\ lc'[c].writes = 0
                          /\ idxDocs'[KbIndex] = KnowledgeBase]_vars

\* A promotion of an id the conversation index does not hold has been
\* answered with False and an error response, and the knowledge base holds
\* what an earlier promotion put there.
C20_Witness ==
    \E c \in Callers :
        /\ lc[c].op = "promote_to_knowledge_base"
        /\ lc[c].pc = "done" /\ lc[c].result = "False"
        /\ lc[c].conversation_id \notin DOMAIN Conversations
        /\ lc[c].writes = 0
        /\ lc[c].response.status_code = 500
        /\ Cardinality(DOMAIN KnowledgeBase) = 1

(***************************************************************************)
(* LearningService.get_learning_stats                                      *)
(***************************************************************************)
\* A terms aggregation that gives no "size" returns the ten buckets with
\* the most documents.
TermsDefaultSize == 10

\* What a document without the field counts as: it falls into no bucket.
NoValue == "<missing>"
\* The value of a field of a document, by its path.
FieldOf(document, field) ==
    IF field = "metadata.channel"
    THEN Get(Get(document, "metadata", <<>>), "channel", NoValue)
    ELSE Get(document, field, NoValue)

\* Number of documents whose field has the value v.
DocCount(docs, field, v) ==
    Cardinality({id \in DOMAIN docs : FieldOf(docs[id], field) = v})

\* {"terms": {"field": ...}}: one bucket per value that occurs, documents
\* without the field in none; of more than TermsDefaultSize buckets the ones
\* with the most documents are returned.  The dict comprehension of
\* get_learning_stats turns the buckets into {key: doc_count}.
TermsBuckets(docs, field) ==
    LET values == {FieldOf(docs[id], field) : id \in DOMAIN docs} \ {NoValue}
        kept == CHOOSE S \in SUBSET values :
                   /\ Cardinality(S) = Min(TermsDefaultSize, Cardinality(values))
                   /\ \A v \in S, w \in values \ S :
                         DocCount(docs, field, v) >= DocCount(docs, field, w)
    IN  [v \in kept |-> DocCount(docs, field, v)]

\* The call is over with {"error": str(e)}.
StatsError(call) == [call EXCEPT !.pc = "done", !.response = [error |-> "error"]]

\* get_learning_stats up to and over `client.count(index=learning_index)`.
\* `seen` keeps what the index held at that moment.
get_learning_stats(c, fault) ==
    /\ lc[c].pc = "idle"
    /\ LET entered == [LcIdle EXCEPT !.op = "get_learning_stats"]
       IN  lc' = [lc EXCEPT ![c] =
                    IF fault \/ ~idxExists[LearningIndex]
                    THEN StatsError(entered)
                    ELSE [entered EXCEPT
                            !.pc = "stats_aggs",
                            !.total = Cardinality(DOMAIN idxDocs[LearningIndex]),
                            !.seen = idxDocs[LearningIndex]]]
    /\ UNCHANGED <<storeVars, settings, rag, rc, ci, wr, uuidNext, clock, nCalls, channelVars, ck>>

\* `client.search(index=learning_index, body=aggs_query)` and the return.
get_learning_stats_aggs(c, fault) ==
    /\ lc[c].pc = "stats_aggs"
    /\ lc' = [lc EXCEPT ![c] =
                IF fault \/ ~idxExists[LearningIndex]
                THEN StatsError(@)
                ELSE [@ EXCEPT
                        !.pc = "done",
                        !.response =
                           [total_conversations |-> lc[c].total,
                            feedback_breakdown |->
                               TermsBuckets(idxDocs[LearningIndex], "feedback"),
                            channel_breakdown |->
                               TermsBuckets(idxDocs[LearningIndex], "metadata.channel"),
                            learning_index |-> LearningIndex]]]
    /\ UNCHANGED <<storeVars, settings, rag, rc, ci, wr, uuidNext, clock, nCalls, channelVars, ck>>

\* A conversation index on which update_feedback was called with one value
\* more than a terms aggregation returns, each on a record of its own.
ManyFeedbackValues ==
    LET rec(t) == Merge(StoredConversation(t, Some("u1"), LearningIndexDims),
                        FeedbackPatch("f" \o ToString(t)))
    IN  [id \in {rec(t).id : t \in 0..TermsDefaultSize} |->
            CHOOSE r \in {rec(t) : t \in 0..TermsDefaultSize} : r.id = id]

\* The example of the specification: three records, positive, positive,
\* negative.
ThreeConversations ==
    LET rec(t, f) == Merge(StoredConversation(t, Some("u1"), LearningIndexDims),
                           FeedbackPatch(f))
        recs == {rec(2, "positive"), rec(3, "positive"), rec(4, "negative")}
    IN  [id \in {r.id : r \in recs} |-> CHOOSE r \in recs : r.id = id]

StatsContents ==
    ConversationContents(LearningIndexDims)
        \cup {ThreeConversations, ManyFeedbackValues}

\* A running deployment on the OpenAI provider whose conversation index was
\* created by ensure_learning_index.
InitStats ==
    /\ settings = DefaultSettings
    /\ \E loaded \in BOOLEAN : rag = RAGService(settings, loaded)
    /\ idxExists = [n \in IndexNames |-> TRUE]
    /\ idxDims = [n \in IndexNames |->
                    IF n = KbIndex THEN settings.embedding_dimension
                    ELSE LearningIndexDims]
    /\ \E docs \in StatsContents :
          /\ \A id \in DOMAIN docs : docs[id].id = id
          /\ idxDocs = [n \in IndexNames |->
                          IF n = LearningIndex THEN docs ELSE <<>>]
    /\ rc = RcIdle
    /\ ci = [c \in Creators |-> CiIdle]
    /\ wr = WrIdle
    /\ uuidNext = 0
    /\ lc = [c \in Callers |-> LcIdle]
    /\ clock = 0
    /\ nCalls = 0
    /\ app_state = AppIdle
    /\ tg = [c \in Callers |-> TgIdle]
    /\ call_contexts = <<>>
    /\ ph = [r \in Requests |-> PhIdle]
    /\ ended = {}
    /\ ck = CkIdle

NextStats ==
    \/ \E c \in Callers, user_id \in UserIdArgs : store_conversation(c, user_id)
    \/ \E c \in Callers, ok \in BOOLEAN : store_embed_question(c, ok)
    \/ \E c \in Callers, ok \in BOOLEAN : store_embed_answer(c, ok)
    \/ \E c \in Callers, fault \in BOOLEAN : store_index(c, fault, FALSE)
    \/ \E c \in Callers : learning_return(c)
    \/ \E c \in Callers, fault \in BOOLEAN : get_learning_stats(c, fault)
    \/ \E c \in Callers, fault \in BOOLEAN : get_learning_stats_aggs(c, fault)

SpecStats == InitStats /\ [][NextStats]_vars

(***************************************************************************)
(* Properties of get_learning_stats (checked under SpecStats)              *)
(***************************************************************************)
RECURSIVE SumOf(_)
SumOf(f) ==
    IF DOMAIN f = {} THEN 0
    ELSE LET v == CHOOSE x \in DOMAIN f : TRUE
         IN  f[v] + SumOf([x \in DOMAIN f \ {v} |-> f[x]])

\* The call has returned the three statistics.
StatsAnswered(c) ==
    /\ lc[c].pc = "done"
    /\ lc[c].op = "get_learning_stats"
    /\ "error" \notin DOMAIN lc[c].response

\* breakdown maps each value of the field that occurs to its record count.
ExactBreakdown(breakdown, docs, field) ==
    /\ DOMAIN breakdown = {FieldOf(docs[id], field) : id \in DOMAIN docs}
    /\ \A v \in DOMAIN breakdown : breakdown[v] = DocCount(docs, field, v)

\* C21: a get_learning_stats call during which the conversation index did
\* not change returns the number of records as total_conversations, and as
\* feedback_breakdown and channel_breakdown the exact record count of every
\* feedback value and every metadata.channel value that occurs, so that
\* each breakdown sums to total_conversations.
C21_QuiescentStatsExact ==
    \A c \in Callers :
        StatsAnswered(c) /\ lc[c].seen = Conversations =>
            LET r == lc[c].response
            IN  /\ r.total_conversations = Cardinality(DOMAIN Conversations)
                /\ ExactBreakdown(r.feedback_breakdown, Conversations, "feedback")
                /\ ExactBreakdown(r.channel_breakdown, Conversations, "metadata.channel")
                /\ SumOf(r.feedback_breakdown) = r.total_conversations
                /\ SumOf(r.channel_breakdown) = r.total_conversations

\* The aggregation request of c is answered in this step.
StatsAggregated(c) ==
    /\ lc[c].pc = "stats_aggs"
    /\ lc'[c].pc = "done"
    /\ "error" \notin DOMAIN lc'[c].response

\* Records without a feedback value.
LackingFeedback(docs) == DocCount(docs, "feedback", NoValue)

\* C28: the total and the breakdowns come from two requests.  When a
\* store_conversation write has landed between them, the returned
\* total_conversations is smaller than the sum of feedback_breakdown; in
\* every interleaving that sum is at least total_conversations minus the
\* records without a feedback value; and a call that a store failure ends
\* returns an object with the single field error.
C28_StatsNotSnapshot ==
    [][\A c \in Callers :
          /\ StatsAggregated(c) =>
                LET r == lc'[c].response
                IN  /\ lc[c].seen # Conversations =>
                          r.total_conversations < SumOf(r.feedback_breakdown)
                    /\ SumOf(r.feedback_breakdown) >=
                          r.total_conversations - LackingFeedback(Conversations)
          /\ lc'[c].op = "get_learning_stats" /\ lc'[c].pc = "done"
                /\ ~StatsAnswered(c)' =>
                DOMAIN lc'[c].response = {"error"}]_vars

(***************************************************************************)
(* LearningService.search_similar_conversations                            *)
(***************************************************************************)
SimilarQuestions == {"opening hours", "refund policy"}
SimilarMinScores == {5, 8}

\* The except clause of search_similar_conversations: log, return [].
ReturnEmpty(call) ==
    [call EXCEPT !.pc = "done", !.caught = TRUE, !.response = <<>>]

\* One entry of `results`; the reads of hit["_source"] raise KeyError on a
\* record without the field.
SimilarResult(hit) ==
    [id |-> hit._id,
     score |-> hit._score,
     question |-> hit._source.question,
     answer |-> hit._source.answer,
     timestamp |-> hit._source.timestamp,
     feedback |-> Get(hit._source, "feedback", "neutral")]

SimilarFields == {"question", "answer", "timestamp"}

\* The same request on the embedding of the answers.
SimilarQuery_AnswerField(call) ==
    [knn |-> [field |-> "answer_embedding",
              query_vector |-> call.question_embedding,
              k |-> call.top_k,
              num_candidates |-> call.top_k * NumCandidatesFactor],
     min_score |-> call.min_score]

\* The search body `query`.
SimilarQuery(call) ==
    [knn |-> [field |-> "question_embedding",
              query_vector |-> call.question_embedding,
              k |-> call.top_k,
              num_candidates |-> call.top_k * NumCandidatesFactor],
     min_score |-> call.min_score]

\* The call up to and over `await self.rag_service.generate_embedding(question)`.
search_similar_conversations(c, question, top_k, min_score, ok) ==
    /\ lc[c].pc = "idle"
    /\ LET entered == [LcIdle EXCEPT !.op = "search_similar_conversations",
                                     !.question = question,
                                     !.top_k = top_k,
                                     !.min_score = min_score,
                                     !.embedReqs = 1]
           answer == EmbeddingAnswer(question, ok)
       IN  lc' = [lc EXCEPT ![c] =
                    IF answer.raised THEN ReturnEmpty(entered)
                    ELSE [entered EXCEPT !.pc = "similar_search",
                                         !.question_embedding = answer.vector]]
    /\ UNCHANGED <<storeVars, settings, rag, rc, ci, wr, uuidNext, clock, nCalls, channelVars, ck>>

\* `client.search(index=learning_index, body=query, size=top_k)` with the
\* knn clause on question_embedding, and the loop over the hits.
search_similar_search(c, fault) ==
    /\ lc[c].pc = "similar_search"
    /\ LET call == lc[c]
           query == SimilarQuery(call)
           response == KnnSearch(LearningIndex, query.knn.field,
                                 query.knn.query_vector, query.knn.k,
                                 query.knn.num_candidates,
                                 query.min_score, call.top_k)
           hits == response.hits
       IN  lc' = [lc EXCEPT ![c] =
                    IF \/ fault
                       \/ ~response.ok
                       \/ \E i \in 1..Len(hits) :
                             ~(SimilarFields \subseteq DOMAIN hits[i]._source)
                    THEN ReturnEmpty(call)
                    ELSE [call EXCEPT
                            !.pc = "done",
                            !.response = [i \in 1..Len(hits) |->
                                             SimilarResult(hits[i])]]]
    /\ UNCHANGED <<storeVars, settings, rag, rc, ci, wr, uuidNext, clock, nCalls, channelVars, ck>>

\* A record that a store_conversation(question, answer) of an engine with
\* vectors of length dims has written.
ConversationOf(question, answer, now, user_id, dims) ==
    ConversationRecord(
        [LcIdle EXCEPT
            !.question = question, !.answer = answer, !.user_id = user_id,
            !.question_embedding = [dims |-> dims, dir |-> Dir(question)],
            !.answer_embedding = [dims |-> dims, dir |-> Dir(answer)]],
        ConversationId(now, user_id), now)

\* What the conversation index may hold at the start: nothing, or one or
\* both of two earlier records with other questions.
SimilarContents(dims) ==
    LET r1 == ConversationOf("refund hours", "opening hours", 0, Some("u1"), dims)
        r2 == ConversationOf("refund policy", "weather", 1, Some("u1"), dims)
    IN  {<<>>, [x \in {r1.id} |-> r1], [x \in {r2.id} |-> r2],
         [x \in {r1.id, r2.id} |-> IF x = r1.id THEN r1 ELSE r2]}

\* A running deployment of either provider; its conversation index has the
\* vector length of the mapping of ensure_learning_index, or the one a first
\* write gave it.
InitSimilar ==
    /\ settings \in SettingsChoices
    /\ settings.min_similarity_score = DefaultMinSimilarityScore
    /\ settings.embedding_dimension = ProviderDims(settings.use_local_models)
    /\ \E loaded \in BOOLEAN : rag = RAGService(settings, loaded)
    /\ idxExists = [n \in IndexNames |-> TRUE]
    /\ idxDims \in [IndexNames -> Dimensions]
    /\ idxDims[KbIndex] = settings.embedding_dimension
    /\ \E docs \in SimilarContents(idxDims[LearningIndex]) :
          idxDocs = [n \in IndexNames |->
                        IF n = LearningIndex THEN docs ELSE <<>>]
    /\ rc = RcIdle
    /\ ci = [c \in Creators |-> CiIdle]
    /\ wr = WrIdle
    /\ uuidNext = 0
    /\ lc = [c \in Callers |-> LcIdle]
    /\ clock = 0
    /\ nCalls = 0
    /\ app_state = AppIdle
    /\ tg = [c \in Callers |-> TgIdle]
    /\ call_contexts = <<>>
    /\ ph = [r \in Requests |-> PhIdle]
    /\ ended = {}
    /\ ck = CkIdle

NextSimilar ==
    \/ \E c \in Callers, user_id \in UserIdArgs : store_conversation(c, user_id)
    \/ \E c \in Callers, ok \in BOOLEAN : store_embed_question(c, ok)
    \/ \E c \in Callers, ok \in BOOLEAN : store_embed_answer(c, ok)
    \/ \E c \in Callers, fault \in BOOLEAN : store_index(c, fault, FALSE)
    \/ \E c \in Callers : learning_return(c)
    \/ \E c \in Callers, question \in SimilarQuestions, top_k \in 0..MaxK,
          min_score \in SimilarMinScores, ok \in BOOLEAN :
          search_similar_conversations(c, question, top_k, min_score, ok)
    \/ \E c \in Callers, fault \in BOOLEAN : search_similar_search(c, fault)

SpecSimilar == InitSimilar /\ [][NextSimilar]_vars

(***************************************************************************)
(* Properties of search_similar_conversations (checked under SpecSimilar)  *)
(***************************************************************************)
\* The search request of c is answered in this step.
SimilarSearched(c) ==
    /\ lc[c].pc = "similar_search"
    /\ lc'[c].pc = "done"
    /\ ~lc'[c].caught

\* Similarity of the query of a call to the question of a record.
QuestionScore(call, document) ==
    CosineScore(call.question_embedding, document.question_embedding)

\* The records whose question is at least min_score similar to the query.
Near(call) ==
    {id \in DOMAIN Conversations :
        QuestionScore(call, Conversations[id]) >= call.min_score}

\* C22: with either provider, an answered search_similar_conversations
\* whose top_k is at least the number of records with a question at least
\* min_score similar to the query returns each of them, also the ones
\* store_conversation has just written, with the stored question and
\* answer; and every hit is scored on the question embedding alone, so a
\* record is never returned for the similarity of its answer.
C22_StoredConversationFound ==
    [][\A c \in Callers :
          SimilarSearched(c) =>
              LET call == lc[c]
                  results == lc'[c].response
              IN  /\ call.top_k >= Cardinality(Near(call)) =>
                        \A id \in Near(call) :
                            \E i \in 1..Len(results) :
                                /\ results[i].id = id
                                /\ results[i].question = Conversations[id].question
                                /\ results[i].answer = Conversations[id].answer
                  /\ \A i \in 1..Len(results) :
                        /\ results[i].id \in Near(call)
                        /\ results[i].score =
                              QuestionScore(call, Conversations[results[i].id])]_vars

\* One caller has its True from store_conversation, and the search of the
\* other returns the record it wrote, with its question and answer.
C22_Witness ==
    \E c, d \in Callers :
        /\ lc[d].op = "store_conversation" /\ lc[d].pc = "done"
        /\ lc[d].result = "True"
        /\ lc[c].op = "search_similar_conversations" /\ lc[c].pc = "done"
        /\ ~lc[c].caught
        /\ \E i \in 1..Len(lc[c].response) :
              /\ lc[c].response[i].id = lc[d].doc_id
              /\ lc[c].response[i].question = lc[d].question
              /\ lc[c].response[i].answer = lc[d].answer

(***************************************************************************)
(* Properties of generate_embeddings_batch (checked under SpecIngest)      *)
(***************************************************************************)
BatchInputs == {ChunkTexts(n) : n \in 0..MaxBatch}

\* The batch answers all of its inputs in their order, or none.
AllOrNothing(texts, ok) ==
    LET batch == generate_embeddings_batch(texts, ok)
    IN  IF batch.raised
        THEN batch.embeddings = <<>>
        ELSE /\ Len(batch.embeddings) = Len(texts)
             /\ \A i \in 1..Len(texts) :
                   batch.embeddings[i] = Embed(FALSE, texts[i])

\* This step is a call of ingest_file.
FileIngested ==
    /\ learnVars' = learnVars
    /\ wr'.op \in {"ingest_file", "bulk_index"}

\* C23: with either provider, generate_embeddings_batch on n texts returns
\* n embeddings, the i-th being the embedding of the i-th text, or raises
\* and returns nothing; an ingest_file whose batch raises writes no chunk,
\* and one whose batch returns sends every chunk with the embedding of its
\* own text.
C23_BatchAllOrNothing ==
    [][/\ \A texts \in BatchInputs, ok \in BOOLEAN : AllOrNothing(texts, ok)
       /\ FileIngested /\ wr'.result = "embedding_failed" =>
             storeVars' = storeVars
       /\ FileIngested /\ wr'.result = "returned" /\ wr'.success = wr'.n =>
             \A i \in 1..wr'.n :
                 LET id == "p" \o ToString(i)
                 IN  /\ id \in DOMAIN KnowledgeBase'
                     /\ KnowledgeBase'[id].text = ChunkTexts(wr'.n)[i]
                     /\ KnowledgeBase'[id].embedding =
                            Embed(FALSE, ChunkTexts(wr'.n)[i])]_vars

\* A file of one chunk is in the index with the embedding of its text, and
\* the batch of a later file of MaxBatch chunks has failed: none of its
\* further chunks is there.
C23_Witness ==
    /\ wr.op = "ingest_file" /\ wr.result = "embedding_failed"
    /\ wr.n = MaxBatch
    /\ DOMAIN KnowledgeBase = {"p1"}
    /\ KnowledgeBase["p1"].embedding = Embed(FALSE, "opening hours")

\* C24: promotion is an upsert by id.  Every promotion of conversation
\* convId that returns True, the first one or a repeated one, after or
\* during another promotion of the same id, leaves the passage
\* "learned_" + convId in the knowledge base, and the number of documents
\* there grows by one if the passage was not there and not at all if it
\* was; the other passages stay.
C24_PromotionIdempotent ==
    [][\A c \in Callers :
          PromotionEnds(c) /\ lc'[c].result = "True" =>
              LET id == "learned_" \o lc'[c].conversation_id
                  after == idxDocs'[KbIndex]
              IN  /\ id \in DOMAIN after
                  /\ after[id].id = id
                  /\ DOMAIN after \ {id} = DOMAIN KnowledgeBase \ {id}
                  /\ Cardinality(DOMAIN after) =
                        Cardinality(DOMAIN KnowledgeBase)
                            + (IF id \in DOMAIN KnowledgeBase THEN 0 ELSE 1)]_vars

\* Both callers have promoted the same conversation, the second write
\* found the passage of the first, and the knowledge base holds one
\* document.
C24_Witness ==
    \E c, d \in Callers :
        /\ c # d
        /\ lc[c].op = "promote_to_knowledge_base"
        /\ lc[d].op = "promote_to_knowledge_base"
        /\ lc[c].pc = "done" /\ lc[c].result = "True"
        /\ lc[d].pc = "done" /\ lc[d].result = "True"
        /\ lc[c].conversation_id = lc[d].conversation_id
        /\ lc[d].existed
        /\ DOMAIN KnowledgeBase = {"learned_" \o lc[c].conversation_id}

(***************************************************************************)
(* main.lifespan and routes/telegram.py telegram_webhook                   *)
(***************************************************************************)
\* lifespan up to its yield: es_client is always put into app.state, the
\* learning service only when ping() answers True and the services can be
\* built; every exception is logged and swallowed.
lifespan(ping, built) ==
    [es_client |-> TRUE, learning_service |-> ping /\ built]

UpdateKinds == {"no_message", "text", "voice"}
PipelineOutcomes == {"answer", "empty_transcript", "raised"}

\* What the webhook answers.
Returned(call, status_code, status) ==
    [call EXCEPT !.pc = "returned",
                 !.response = [status_code |-> status_code, status |-> status]]

\* The outer except clause: HTTPException(status_code=500).
WebhookError(call) == Returned(call, 500, "error")

\* A failed learning step fails the request.
AfterLearning_FailsRequest(call, outcome) ==
    IF outcome = "True"
    THEN Returned([call EXCEPT !.learning = outcome], 200, "success")
    ELSE WebhookError([call EXCEPT !.learning = outcome])

\* After the inner try/except around the learning step: whatever happened
\* there, log conversation_complete and return status success.
AfterLearning(call, outcome) ==
    Returned([call EXCEPT !.learning = outcome], 200, "success")

\* Requests that have still to call store_conversation.
StoresAhead ==
    Cardinality({d \in Callers :
                    /\ tg[d].pc \in {"pipeline", "send_voice", "log", "learning"}
                    /\ lc[d].pc = "idle"})

\* The webhook up to the voice check; `fault`: send_message raises.
telegram_webhook(c, update, fault) ==
    /\ tg[c].pc = "idle"
    /\ lc[c].pc = "idle"
    /\ nCalls + StoresAhead < MaxCalls
    /\ tg' = [tg EXCEPT ![c] =
                CASE update = "no_message" -> Returned(TgIdle, 200, "ignored")
                  [] update = "text" ->
                        IF fault THEN WebhookError(TgIdle)
                        ELSE Returned(TgIdle, 200, "ignored")
                  [] OTHER -> [TgIdle EXCEPT !.pc = "pipeline"]]
    /\ UNCHANGED <<storeVars, settings, rag, rc, ci, wr, uuidNext, learnVars,
                   app_state, call_contexts, ph, ended, ck>>

\* Steps 1 to 5: download, speech to text, retrieval (whose failure is
\* tolerated), the language model and text to speech.
telegram_pipeline(c, outcome) ==
    /\ tg[c].pc = "pipeline"
    /\ tg' = [tg EXCEPT ![c] =
                CASE outcome = "answer" -> [@ EXCEPT !.pc = "send_voice"]
                  [] outcome = "empty_transcript" -> Returned(@, 200, "error")
                  [] OTHER -> WebhookError(@)]
    /\ UNCHANGED <<storeVars, settings, rag, rc, ci, wr, uuidNext, learnVars,
                   app_state, call_contexts, ph, ended, ck>>

\* Step 6: `await telegram_service.send_voice(chat_id, voice_data)`.
telegram_send_voice(c, ok) ==
    /\ tg[c].pc = "send_voice"
    /\ tg' = [tg EXCEPT ![c] =
                IF ok THEN [@ EXCEPT !.pc = "log", !.voice_sent = TRUE]
                ELSE WebhookError(@)]
    /\ UNCHANGED <<storeVars, settings, rag, rc, ci, wr, uuidNext, learnVars,
                   app_state, call_contexts, ph, ended, ck>>

\* ConversationLog(...), then the inner try block up to the call of
\* store_conversation: request.app.state.learning_service raises
\* AttributeError when lifespan has not set it.
telegram_learning(c, logged) ==
    /\ tg[c].pc = "log"
    /\ tg' = [tg EXCEPT ![c] =
                IF ~logged THEN WebhookError(@)
                ELSE IF ~app_state.learning_service
                     THEN AfterLearning(@, "AttributeError")
                     ELSE [@ EXCEPT !.pc = "learning"]]
    /\ UNCHANGED <<storeVars, settings, rag, rc, ci, wr, uuidNext, learnVars,
                   app_state, call_contexts, ph, ended, ck>>

\* `await learning_service.store_conversation(...)` is entered.
telegram_store(c, user_id) ==
    /\ tg[c].pc = "learning"
    /\ store_conversation(c, user_id)

\* store_conversation has returned; its bool is not looked at.
telegram_stored(c) ==
    /\ tg[c].pc = "learning"
    /\ lc[c].pc = "done"
    /\ tg' = [tg EXCEPT ![c] = AfterLearning(@, lc[c].result)]
    /\ lc' = [lc EXCEPT ![c] = LcIdle]
    /\ UNCHANGED <<storeVars, settings, rag, rc, ci, wr, uuidNext, clock, nCalls,
                   app_state, call_contexts, ph, ended, ck>>

\* The response is out; the caller may send its next update.
telegram_done(c) ==
    /\ tg[c].pc = "returned"
    /\ tg' = [tg EXCEPT ![c] = TgIdle]
    /\ UNCHANGED <<storeVars, settings, rag, rc, ci, wr, uuidNext, learnVars,
                   app_state, call_contexts, ph, ended, ck>>

\* The application after lifespan's startup, on either provider, with the
\* conversation index as ensure_learning_index creates it.
InitTelegram ==
    /\ settings \in SettingsChoices
    /\ settings.min_similarity_score = DefaultMinSimilarityScore
    /\ settings.embedding_dimension = ProviderDims(settings.use_local_models)
    /\ rag = RAGService(settings, TRUE)
    /\ idxExists = [n \in IndexNames |-> TRUE]
    /\ idxDims = [n \in IndexNames |->
                    IF n = KbIndex THEN settings.embedding_dimension
                    ELSE LearningIndexDims]
    /\ idxDocs = [n \in IndexNames |-> <<>>]
    /\ rc = RcIdle
    /\ ci = [c \in Creators |-> CiIdle]
    /\ wr = WrIdle
    /\ uuidNext = 0
    /\ lc = [c \in Callers |-> LcIdle]
    /\ clock = 0
    /\ nCalls = 0
    /\ \E ping, built \in BOOLEAN : app_state = lifespan(ping, built)
    /\ tg = [c \in Callers |-> TgIdle]
    /\ call_contexts = <<>>
    /\ ph = [r \in Requests |-> PhIdle]
    /\ ended = {}
    /\ ck = CkIdle

NextTelegram ==
    \/ \E c \in Callers, update \in UpdateKinds, fault \in BOOLEAN :
          telegram_webhook(c, update, fault)
    \/ \E c \in Callers, outcome \in PipelineOutcomes : telegram_pipeline(c, outcome)
    \/ \E c \in Callers, ok \in BOOLEAN : telegram_send_voice(c, ok)
    \/ \E c \in Callers, logged \in BOOLEAN : telegram_learning(c, logged)
    \/ \E c \in Callers : telegram_store(c, Some("u1"))
    \/ \E c \in Callers, ok \in BOOLEAN : store_embed_question(c, ok)
    \/ \E c \in Callers, ok \in BOOLEAN : store_embed_answer(c, ok)
    \/ \E c \in Callers, fault \in BOOLEAN : store_index(c, fault, FALSE)
    \/ \E c \in Callers : telegram_stored(c)
    \/ \E c \in Callers : telegram_done(c)

SpecTelegram == InitTelegram /\ [][NextTelegram]_vars

\* C25: store_conversation is entered, and the learning service looked up,
\* only after send_voice has delivered the answer; and however the learning
\* step ends (store_conversation returns False, or the learning service is
\* missing from app.state because the store did not answer at startup), the
\* webhook returns status success.
C25_LearningNeverFailsRequest ==
    \A c \in Callers :
        /\ lc[c].op = "store_conversation" =>
              tg[c].voice_sent /\ tg[c].pc = "learning"
        /\ tg[c].pc = "learning" => tg[c].voice_sent
        /\ tg[c].learning # "" =>
              /\ tg[c].voice_sent
              /\ tg[c].pc = "returned"
              /\ tg[c].response = [status_code |-> 200, status |-> "success"]

\* One request whose store_conversation returned False has been answered
\* with success.
C25_Witness ==
    \E c \in Callers :
        /\ tg[c].pc = "returned"
        /\ tg[c].voice_sent
        /\ tg[c].learning = "False"
        /\ tg[c].response.status = "success"

(***************************************************************************)
(* Arguments and defaults of retrieval (checked under SpecRetrieve)        *)
(***************************************************************************)
\* The ids the store returns, in order, for the query of the call in
\* progress when the score floor is min_score.
AppliedFloor(min_score) ==
    LET hits == KnnSearch(KbIndex, "embedding", rc.query_embedding, rc.top_k,
                          rc.top_k * NumCandidatesFactor, min_score, rc.top_k).hits
    IN  [i \in 1..Len(hits) |-> hits[i]._id]

\* C26: retrieve_context and vector_search apply the top_k and the
\* min_score the caller passed, 0 included (with min_score 0 no hit is left
\* out for its score), and put max_context_chunks and
\* min_similarity_score in their place only when the argument is omitted.
C26_PassedArgumentsApplied ==
    /\ rc.pc # "idle" =>
          rc.top_k = IF rc.top_k_arg.given THEN rc.top_k_arg.val
                     ELSE settings.max_context_chunks
    /\ VectorAnswered =>
          [i \in 1..Len(rc.results) |-> rc.results[i].id]
              = AppliedFloor(IF rc.min_score.given THEN rc.min_score.val
                             ELSE settings.min_similarity_score)

\* The passage a promotion builds is the same whatever the feedback of the
\* record is.
FeedbackNotRead(conversation_id, conv) ==
    \A feedback \in FeedbackValues, doc_type \in DocTypeArgs,
       product \in ProductArgs :
        PromotedPassage(conversation_id, Merge(conv, FeedbackPatch(feedback)),
                        doc_type, product)
            = PromotedPassage(conversation_id, conv, doc_type, product)

\* C27: promotion does not read the feedback of the record.  A promotion
\* that returns True has written the passage built from question, answer
\* and question embedding of the record it read, whatever feedback that
\* record had, negative included; and no update_feedback, on the source of
\* a passage or on another record, changes the knowledge base.
C27_PromotionIgnoresFeedback ==
    [][/\ \A c \in Callers :
             PromotionEnds(c) /\ lc'[c].result = "True" =>
                 /\ FeedbackNotRead(lc[c].conversation_id, lc[c].seen)
                 /\ idxDocs'[KbIndex]["learned_" \o lc[c].conversation_id]
                       = PromotedPassage(
                            lc[c].conversation_id,
                            [lc[c].seen EXCEPT !.feedback = "neutral"],
                            lc[c].kb_doc.metadata.doc_type,
                            lc[c].kb_doc.metadata.product)
       /\ learnVars' = learnVars /\ wr'.op = "update_feedback" =>
             /\ idxDocs'[KbIndex] = KnowledgeBase
             /\ idxExists'[KbIndex] = idxExists[KbIndex]
             /\ idxDims'[KbIndex] = idxDims[KbIndex]]_vars

\* A record that had negative feedback when the promotion read it is a
\* passage of the knowledge base, and the promotion has returned True.
C27_Witness ==
    \E c \in Callers :
        /\ lc[c].op = "promote_to_knowledge_base"
        /\ lc[c].pc = "done" /\ lc[c].result = "True"
        /\ lc[c].seen.feedback = "negative"
        /\ "learned_" \o lc[c].conversation_id \in DOMAIN KnowledgeBase
        /\ Conversations[lc[c].conversation_id].feedback = "negative"

(***************************************************************************)
(* routes/phone.py: the dict call_contexts                                 *)
(***************************************************************************)
MaxInteractions == 2   \* largest interaction_count of a context
CallSids == {"CA1", "CA2"}
TerminalStatuses == {"completed", "busy", "no-answer", "canceled", "failed"}
CallStatuses == TerminalStatuses \cup {"ringing", "in-progress"}

\* What the caller said: nothing usable, a goodbye, or a question.
SpeechResults == {"", "goodbye", "opening hours"}

\* call_contexts.pop(CallSid, None)
Pop(d, key) == [x \in DOMAIN d \ {key} |-> d[x]]

\* A context is a dict object; `obj` is its identity.  A request that has
\* looked the context up holds the object itself, so what one holder writes
\* into it every holder sees.
Objects == 1..(Cardinality(CallSids) + Cardinality(Requests) + 1)
Referenced ==
    {call_contexts[sid].obj : sid \in DOMAIN call_contexts}
        \cup {ph[r].context.obj : r \in {q \in Requests : ph[q].pc # "idle"}}
FreshObj == CHOOSE o \in Objects : o \notin Referenced

\* The holders of object `value.obj` after it has been given `value`.
WriteContexts(d, value) ==
    [sid \in DOMAIN d |-> IF d[sid].obj = value.obj THEN value ELSE d[sid]]
WriteRequests(reqs, value) ==
    [r \in Requests |->
        IF reqs[r].pc # "idle" /\ reqs[r].context.obj = value.obj
        THEN [reqs[r] EXCEPT !.context = value] ELSE reqs[r]]

\* handle_incoming_call: a fresh context for the CallSid.
handle_incoming_call(call_sid) ==
    /\ call_contexts' = Put(call_contexts, call_sid,
                            [obj |-> FreshObj, from_number |-> "+1",
                             started_at |-> "utcnow", interaction_count |-> 0])
    /\ ended' = ended \ {call_sid}
    /\ UNCHANGED <<storeVars, settings, rag, rc, ci, wr, uuidNext, learnVars,
                   app_state, tg, ph, ck>>

\* process_speech up to its first await: `context` is the dict of the
\* CallSid, or a new dict when there is none, and its interaction_count is
\* raised in place; no usable speech returns at once, a goodbye pops the
\* CallSid and returns.
process_speech(r, CallSid, SpeechResult) ==
    /\ ph[r].pc = "idle"
    /\ LET before == Get(call_contexts, CallSid, [obj |-> FreshObj])
           context == Put(before, "interaction_count",
                          Get(before, "interaction_count", 0) + 1)
           written == WriteContexts(call_contexts, context)
       IN  /\ context.interaction_count <= MaxInteractions
           /\ call_contexts' = IF SpeechResult = "goodbye"
                               THEN Pop(written, CallSid) ELSE written
           /\ ended' = IF SpeechResult = "goodbye"
                       THEN ended \cup {CallSid} ELSE ended
           /\ ph' = IF SpeechResult \in {"", "goodbye"}
                    THEN WriteRequests(ph, context)
                    ELSE [WriteRequests(ph, context) EXCEPT ![r] =
                             [pc |-> "answering", CallSid |-> CallSid,
                              context |-> context]]
    /\ UNCHANGED <<storeVars, settings, rag, rc, ci, wr, uuidNext, learnVars,
                   app_state, tg, ck>>

\* The awaits of process_speech (retrieval, language model) are over:
\* `call_contexts[CallSid] = context`, or the except clause, which hangs up
\* and leaves the dict alone.
process_speech_answer(r, ok) ==
    /\ ph[r].pc = "answering"
    /\ call_contexts' =
          IF ok THEN Put(call_contexts, ph[r].CallSid, ph[r].context)
          ELSE call_contexts
    /\ ph' = [ph EXCEPT ![r] = PhIdle]
    /\ UNCHANGED <<storeVars, settings, rag, rc, ci, wr, uuidNext, learnVars,
                   app_state, tg, ended, ck>>

\* call_status_callback: a terminal status removes the context.
call_status_callback(CallSid, CallStatus) ==
    /\ IF CallStatus \in TerminalStatuses
       THEN /\ call_contexts' = Pop(call_contexts, CallSid)
            /\ ended' = ended \cup {CallSid}
       ELSE UNCHANGED <<call_contexts, ended>>
    /\ UNCHANGED <<storeVars, settings, rag, rc, ci, wr, uuidNext, learnVars,
                   app_state, tg, ph, ck>>

\* The module has just been imported: call_contexts = {}.
InitPhone ==
    /\ settings = DefaultSettings
    /\ rag = RAGService(settings, TRUE)
    /\ idxExists = [n \in IndexNames |-> TRUE]
    /\ idxDims = [n \in IndexNames |->
                    IF n = KbIndex THEN settings.embedding_dimension
                    ELSE LearningIndexDims]
    /\ idxDocs = [n \in IndexNames |-> <<>>]
    /\ rc = RcIdle
    /\ ci = [c \in Creators |-> CiIdle]
    /\ wr = WrIdle
    /\ uuidNext = 0
    /\ lc = [c \in Callers |-> LcIdle]
    /\ clock = 0
    /\ nCalls = 0
    /\ app_state = lifespan(TRUE, TRUE)
    /\ tg = [c \in Callers |-> TgIdle]
    /\ call_contexts = <<>>
    /\ ph = [r \in Requests |-> PhIdle]
    /\ ended = {}
    /\ ck = CkIdle

NextPhone ==
    \/ \E sid \in CallSids : handle_incoming_call(sid)
    \/ \E r \in Requests, sid \in CallSids, speech \in SpeechResults :
          process_speech(r, sid, speech)
    \/ \E r \in Requests, ok \in BOOLEAN : process_speech_answer(r, ok)
    \/ \E sid \in CallSids, status \in CallStatuses :
          call_status_callback(sid, status)

SpecPhone == InitPhone /\ [][NextPhone]_vars

\* C29: once a terminal call-status callback or a goodbye has been
\* processed for a CallSid, call_contexts has no entry for it until the next
\* incoming-call for that CallSid; a process-speech request that arrives or
\* completes after the cleanup creates none.
C29_NoContextAfterCleanup ==
    \A sid \in ended : sid \notin DOMAIN call_contexts

(***************************************************************************)
(* scripts/ingest_docs.py: DocumentChunker.chunk_text                      *)
(***************************************************************************)
MaxWords == 4       \* longest text, in words
MaxChunkSize == 3   \* largest chunk_size and overlap of the settings

\* words[start:end] of a list of n words, as the half-open range of the
\* positions it takes: a negative index counts from the end, and both ends
\* are clamped to the list.
SliceIndex(i, n) == IF i < 0 THEN (IF i + n < 0 THEN 0 ELSE i + n) ELSE Min(i, n)
Slice(start, end, n) ==
    LET lo == SliceIndex(start, n)
        hi == SliceIndex(end, n)
    IN  [from |-> lo, to |-> IF hi < lo THEN lo ELSE hi]

\* chunk_text is called: words = text.split(), start = 0, chunk_id = 0.
\* The chunker has the chunk_size and overlap of the settings.
chunk_text(n, chunk_size, overlap) ==
    /\ ck.pc = "idle"
    /\ ck' = [CkIdle EXCEPT !.pc = "loop", !.chunk_size = chunk_size,
                            !.overlap = overlap, !.words = n]
    /\ UNCHANGED <<storeVars, settings, rag, rc, ci, wr, uuidNext, learnVars,
                   channelVars>>

\* One test of `while start < len(words)`: a turn of the loop, or the
\* return.  A turn is taken only while fewer chunks than MaxWords + 1 are
\* there and start is above -MaxWords - 1.  A call that returns takes at
\* most len(words) turns with start >= 0, so the cut stops only calls whose
\* step chunk_size - overlap is <= 0; in the code these go on, since
\* start < len(words) stays true at every later turn.
chunk_loop ==
    /\ ck.pc = "loop"
    /\ IF ck.start < ck.words
       THEN LET chunk_words == Slice(ck.start, ck.start + ck.chunk_size, ck.words)
                kept == chunk_words.to > chunk_words.from
            IN  /\ Len(ck.chunks) <= MaxWords
                /\ ck.start >= -MaxWords
                /\ ck' = [ck EXCEPT
                            !.chunk_id = IF kept THEN @ + 1 ELSE @,
                            !.chunks =
                               IF kept
                               THEN Append(@, [from |-> chunk_words.from,
                                               to |-> chunk_words.to,
                                               chunk_id |-> ck.chunk_id + 1,
                                               chunk_size |-> chunk_words.to
                                                               - chunk_words.from])
                               ELSE @,
                            !.start = @ + ck.chunk_size - ck.overlap]
       ELSE ck' = [ck EXCEPT !.pc = "done"]
    /\ UNCHANGED <<storeVars, settings, rag, rc, ci, wr, uuidNext, learnVars,
                   channelVars>>

\* The caller has the chunks.
chunk_return ==
    /\ ck.pc = "done"
    /\ ck' = CkIdle
    /\ UNCHANGED <<storeVars, settings, rag, rc, ci, wr, uuidNext, learnVars,
                   channelVars>>

InitChunk ==
    /\ settings = DefaultSettings
    /\ rag = RAGService(settings, TRUE)
    /\ idxExists = [n \in IndexNames |-> TRUE]
    /\ idxDims = [n \in IndexNames |->
                    IF n = KbIndex THEN settings.embedding_dimension
                    ELSE LearningIndexDims]
    /\ idxDocs = [n \in IndexNames |-> <<>>]
    /\ rc = RcIdle
    /\ ci = [c \in Creators |-> CiIdle]
    /\ wr = WrIdle
    /\ uuidNext = 0
    /\ lc = [c \in Callers |-> LcIdle]
    /\ clock = 0
    /\ nCalls = 0
    /\ app_state = AppIdle
    /\ tg = [c \in Callers |-> TgIdle]
    /\ call_contexts = <<>>
    /\ ph = [r \in Requests |-> PhIdle]
    /\ ended = {}
    /\ ck = CkIdle

NextChunk ==
    \/ \E n \in 0..MaxWords, chunk_size \in 1..MaxChunkSize,
          overlap \in 0..MaxChunkSize : chunk_text(n, chunk_size, overlap)
    \/ chunk_loop
    \/ chunk_return

\* The loop does not pause: a call that can take its next turn takes it.
SpecChunk == InitChunk /\ [][NextChunk]_vars /\ WF_vars(chunk_loop)

\* What the returned chunks have to be for the text of ck.words words.
ChunksComplete ==
    LET chunks == ck.chunks
    IN  /\ \A w \in 0..ck.words - 1 :
              \E i \in 1..Len(chunks) : chunks[i].from <= w /\ w < chunks[i].to
        /\ \A i \in 1..Len(chunks) :
              /\ chunks[i].chunk_id = i
              /\ chunks[i].to - chunks[i].from <= ck.chunk_size
        /\ \A i \in 1..Len(chunks) - 1 :
              /\ chunks[i].from < chunks[i + 1].from
              /\ \/ chunks[i].to - chunks[i + 1].from = ck.overlap
                 \/ chunks[i].to = ck.words

\* C30: chunk_text returns for every text and every chunk_size and overlap
\* of the settings, and what it returns covers every word, is in the order
\* of the text, has at most chunk_size words a chunk, exactly overlap words
\* shared by consecutive chunks except at the end of the text, and the
\* chunk_id values 1..n.
C30_ChunkTextTerminates ==
    /\ (ck.pc = "loop") ~> (ck.pc = "done")
    /\ [](ck.pc = "done" => ChunksComplete)

====
